---- MODULE Spec2Model ----
(***************************************************************************)
(* Quota / subscription state machine of bearister_server.                 *)
(*                                                                         *)
(* src/src/routes/index.ts holds two revisions of the route module and the *)
(* Clerk webhook:                                                          *)
(*   revision A, lines 113-717  : routes keyed by the internal id,         *)
(*                                /subscription and /usage endpoints,      *)
(*                                PLAN_LIMITS with the -1 sentinel;        *)
(*   revision B, lines 726-1339 : routes keyed by oauthId, finite          *)
(*                                PLAN_LIMITS, the two cron jobs;          *)
(*   webhook,    lines 1340-1544.                                          *)
(* The User table is src/unnamed/part_001 lines 73-93 (schema.prisma), the *)
(* authentication middleware src/src/middleware/clerkAuthenticate.ts.      *)
(*                                                                         *)
(* Time is counted in days.  A nullable column is <<>> (null) or <<v>>.    *)
(* A request body is a record of optional fields, <<>> when absent.        *)
(***************************************************************************)
EXTENDS Integers, Sequences, FiniteSets, Bags, TLC

VARIABLES
    users,      \* the User table: a set of rows
    nextId,     \* the next internal id (uuid) the table hands out
    now,        \* the clock, in days since the service started
    pending,    \* the bag of requests between their read and their write (await points)
    job,        \* the cron job run in progress, or the last one that ended
    last,       \* the last request or job run: what it was and its answer
    pre         \* the User table before the last request or job run

vars == <<users, nextId, now, pending, job, last, pre>>

----------------------------------------------------------------------------
(* Bounds of the model *)

MaxUsers == 2       \* rows ever created
MaxTime == 3        \* days the clock runs
MaxUsed == 2        \* cap on the used counters
MaxPending == 2     \* concurrent requests in flight
StartDay == 29      \* day of the year (0-based) the clock starts on: January 30

(* Program constants *)

ThreeDays == 3      \* 3 * 24 * 60 * 60 * 1000 ms
ThirtyDays == 30    \* 30 * 24 * 60 * 60 * 1000 ms
Unlimited == -1     \* the "unlimited" sentinel of revision A

----------------------------------------------------------------------------
(* The schema *)

PlanType == {"BASIC", "CORE", "ADVANCED", "PRO"}

SubscriptionStatus ==
    {"ACTIVE", "CANCELED", "PAST_DUE", "INCOMPLETE", "INCOMPLETE_EXPIRED",
     "TRIALING", "UNPAID"}

Emails == {"a@b.com", "c@d.com"}
OauthIds == {"x1", "x2"}

Null == <<>>
Some(v) == <<v>>

\* model User: the columns and their defaults
UserDefaults ==
    [ subscriptioStartDate |-> Null,
      subscriptionEndDate  |-> Null,
      subscriptionStatus   |-> "UNPAID",
      planType             |-> "BASIC",
      messagesUsed         |-> 0,
      documentsUsed        |-> 0,
      messageLeft          |-> 20,
      documentLeft         |-> 0 ]

DataFields ==
    {"email", "oauthId", "subscriptioStartDate", "subscriptionEndDate",
     "subscriptionStatus", "planType", "messagesUsed", "documentsUsed",
     "messageLeft", "documentLeft"}

\* an update that writes no column
NoData == [f \in DataFields |-> Null]

\* PLAN_LIMITS of revision A
PLAN_LIMITS_A(plan) ==
    CASE plan = "BASIC"    -> [messages |-> 20,  documents |-> 0]
      [] plan = "CORE"     -> [messages |-> 100, documents |-> 10]
      [] plan = "ADVANCED" -> [messages |-> 500, documents |-> 50]
      [] plan = "PRO"      -> [messages |-> Unlimited, documents |-> Unlimited]

\* variant: the free plan comes with documents
PLAN_LIMITS_FreeDocuments(plan) ==
    CASE plan = "BASIC"    -> [messages |-> 20,   documents |-> 1]
      [] plan = "CORE"     -> [messages |-> 100,  documents |-> 10]
      [] plan = "ADVANCED" -> [messages |-> 700,  documents |-> 50]
      [] plan = "PRO"      -> [messages |-> 1500, documents |-> 400]

\* PLAN_LIMITS of revision B
PLAN_LIMITS_B(plan) ==
    CASE plan = "BASIC"    -> [messages |-> 20,   documents |-> 0]
      [] plan = "CORE"     -> [messages |-> 100,  documents |-> 10]
      [] plan = "ADVANCED" -> [messages |-> 700,  documents |-> 50]
      [] plan = "PRO"      -> [messages |-> 1500, documents |-> 400]

isValidPlanType(plan) == plan \in PlanType

isValidSubscriptionStatus(status) == status \in SubscriptionStatus

\* /^[^\s@]+@[^\s@]+\.[^\s@]+$/ on the addresses the model sends
isValidEmail(email) == email \in Emails

----------------------------------------------------------------------------
(* The calendar: JavaScript Date arithmetic and the cron expressions, in days *)

\* first day (0-based day of the year) of January .. May of a common year
MonthStart == <<0, 31, 59, 90, 120>>

DayOfYear(t) == StartDay + t

MonthOf(t) ==
    CHOOSE m \in 1..4 : MonthStart[m] <= DayOfYear(t) /\ DayOfYear(t) < MonthStart[m + 1]

\* '0 0 1 * *' fires on the first day of a month
IsFirstOfMonth(t) == DayOfYear(t) = MonthStart[MonthOf(t)]

\* d.setMonth(d.getMonth() + 1): same day number in the next month, and a day
\* number past its end rolls over, so the date moves by the length of its month
AddMonth(t) == t + (MonthStart[MonthOf(t) + 1] - MonthStart[MonthOf(t)])

----------------------------------------------------------------------------
(* The persistence layer (Prisma on the User table) *)

\* where: { id } and where: { oauthId }
ById(id) == [by |-> "id", id |-> id, oauthId |-> ""]

ByOauthId(oauthId) == [by |-> "oauthId", id |-> 0, oauthId |-> oauthId]

Match(u, where) ==
    CASE where.by = "id"      -> u.id = where.id
      [] where.by = "oauthId" -> u.oauthId = where.oauthId

\* the table holds a row with the id; that row
Has(store, id) == \E u \in store : u.id = id

Row(store, id) == CHOOSE u \in store : u.id = id

\* prisma.user.findUnique: the set holding the row, or the empty set
findUnique(store, where) == {u \in store : Match(u, where)}

\* prisma.user.findFirst({ where: { OR: [{ email }, { oauthId }] } })
findFirst(store, email, oauthId) ==
    {u \in store : u.email = email \/ u.oauthId = oauthId}

\* a row written over by the columns an update names
ApplyData(u, data) ==
    [f \in DOMAIN u |-> IF f \in DataFields /\ data[f] # Null THEN data[f][1] ELSE u[f]]

\* variant: the columns carry no unique index
NoUniqueViolation(store, row) == FALSE

\* @unique on email and on oauthId
UniqueViolation(store, row) ==
    \E u \in store : u.id # row.id /\ (u.email = row.email \/ u.oauthId = row.oauthId)

\* prisma.user.create at time t: P2002 on a duplicate email or oauthId; updatedAt
\* (@updatedAt) is the time of the write
prismaCreate(store, id, data, t) ==
    LET row == ApplyData([id |-> id, email |-> "", oauthId |-> "", updatedAt |-> t]
                             @@ UserDefaults, data)
    IN  IF UniqueViolation(store, row)
        THEN [err |-> "P2002", store |-> store]
        ELSE [err |-> "", store |-> store \cup {row}]

\* variant: the row is written before the unique index is looked at
prismaUpdateWritingFirst(store, where, data, t) ==
    LET found == findUnique(store, where)
    IN  IF found = {}
        THEN [err |-> "P2025", store |-> store]
        ELSE LET u == CHOOSE x \in found : TRUE
                 row == [ApplyData(u, data) EXCEPT !.updatedAt = t]
             IN  [err |-> IF UniqueViolation(store, row) THEN "P2002" ELSE "",
                  store |-> (store \ {u}) \cup {row}]

\* prisma.user.update at time t: P2025 when no row matches, P2002 on a duplicate;
\* updatedAt (@updatedAt) is set to the time of the write, whatever the data
prismaUpdate(store, where, data, t) ==
    LET found == findUnique(store, where)
    IN  IF found = {}
        THEN [err |-> "P2025", store |-> store]
        ELSE LET u == CHOOSE x \in found : TRUE
                 row == [ApplyData(u, data) EXCEPT !.updatedAt = t]
             IN  IF UniqueViolation(store, row)
                 THEN [err |-> "P2002", store |-> store]
                 ELSE [err |-> "", store |-> (store \ {u}) \cup {row}]

\* prisma.user.delete: P2025 when no row matches
prismaDelete(store, where) ==
    LET found == findUnique(store, where)
    IN  IF found = {}
        THEN [err |-> "P2025", store |-> store]
        ELSE [err |-> "", store |-> store \ found]

----------------------------------------------------------------------------
(* Requests *)

DateFields == {"subscriptioStartDate", "subscriptionEndDate"}

\* fields of a request that are no column of the table: of its body, and of its
\* headers (the bearer token; the svix headers present, whether the signature
\* verifies, and whether the webhook secret is configured)
ExtraFields ==
    {"incrementMessage", "incrementDocument", "type", "amount", "durationMonths",
     "authorization", "svix", "signed", "secret"}

BodyFields == DataFields \cup ExtraFields

NoBody == [f \in BodyFields |-> Null]

\* the columns a body names, as update data
Columns(body, fields) ==
    [f \in DataFields |->
        IF f \in fields /\ body[f] # Null
        THEN (IF f \in DateFields THEN Some(body[f]) ELSE body[f])
        ELSE Null]

Max(a, b) == IF a >= b THEN a ELSE b

Reject(status) == [status |-> status, data |-> NoData]

Proceed(data) == [status |-> 0, data |-> data]

\* Object.keys(updateData).length === 0
IsEmpty(data) == \A f \in DataFields : data[f] = Null

\* variant: the left counters are set and the used counters are left as they are
ResetLeftOnly(limits) ==
    [NoData EXCEPT !.messageLeft = Some(limits.messages),
                   !.documentLeft = Some(limits.documents)]

\* the limits of a plan, as update data that also zeroes the used counters
ResetData(limits) ==
    [NoData EXCEPT !.messageLeft = Some(limits.messages),
                   !.documentLeft = Some(limits.documents),
                   !.messagesUsed = Some(0),
                   !.documentsUsed = Some(0)]

\* data b written over data a
Merge(a, b) == [f \in DataFields |-> IF b[f] # Null THEN b[f] ELSE a[f]]

----------------------------------------------------------------------------
(* The authentication middleware *)

Tokens == {Null, Some("valid"), Some("invalid")}

\* clerkClient.verifyToken(sessionToken || '') resolves: the token is a valid session
\* token; with another token, or with none, it rejects
verifyToken(authorization) == authorization = Some("valid")

\* variant: next() is called for a verified token only
clerkAuthenticateStrict(authorization) == IF verifyToken(authorization) THEN 1 ELSE 0

\* clerkAuthenticate: the number of calls of next(), one at the end of the try block
\* when the token verifies, one in the catch block when it does not
clerkAuthenticate(authorization) == IF verifyToken(authorization) THEN 1 ELSE 1

\* the routes registered with clerkAuthenticate; PATCH /users/:oauthId is not
GatedOps == {"createUser", "updateUserById", "updateSubscription", "consumeUsage", "deleteUser"}

\* the number of times the handler of a request is invoked
Invocations(op, body) ==
    IF op \in GatedOps THEN clerkAuthenticate(body.authorization) ELSE 1

----------------------------------------------------------------------------
(* POST /api/v1/users, up to the write *)

createUserData(store, body) ==
    LET planType == IF body.planType = Null THEN "BASIC" ELSE body.planType[1]
    IN  IF body.email = Null \/ body.oauthId = Null THEN Reject(400)
        ELSE IF ~isValidEmail(body.email[1]) THEN Reject(400)
        ELSE IF ~isValidPlanType(planType) THEN Reject(400)
        ELSE IF findFirst(store, body.email[1], body.oauthId[1]) # {} THEN Reject(409)
        ELSE Proceed([NoData EXCEPT
                 !.email = body.email,
                 !.oauthId = body.oauthId,
                 !.planType = Some(planType),
                 !.messageLeft = Some(PLAN_LIMITS_B(planType).messages),
                 !.documentLeft = Some(PLAN_LIMITS_B(planType).documents)])

\* the catch block of POST /users
createUserCatch(err) == 500

\* variant: the comparison with the current plan is left out
isPlanGiven(planType, existingUser) == planType # Null

\* a string of the body in a condition: undefined and the empty string are falsy
isTruthy(field) == field # Null /\ field[1] # ""

\* planType && planType !== existingUser.planType
isPlanChange(planType, existingUser) ==
    isTruthy(planType) /\ planType[1] # existingUser.planType

(* PATCH /api/v1/users/:id of revision A, up to the write *)

updateUserByIdData(store, id, body) ==
    LET found == findUnique(store, ById(id))
        existingUser == CHOOSE u \in found : TRUE
        updateData == Columns(body, DataFields)
    IN  IF body.email # Null /\ ~isValidEmail(body.email[1]) THEN Reject(400)
        ELSE IF body.planType # Null /\ ~isValidPlanType(body.planType[1]) THEN Reject(400)
        ELSE IF body.subscriptionStatus # Null
                /\ ~isValidSubscriptionStatus(body.subscriptionStatus[1]) THEN Reject(400)
        ELSE IF found = {} THEN Reject(404)
        ELSE IF isPlanChange(body.planType, existingUser)
             THEN Proceed(Merge(updateData, ResetData(PLAN_LIMITS_A(body.planType[1]))))
             ELSE Proceed(updateData)

updateUserByIdCatch(err) == IF err = "P2002" THEN 409 ELSE 500

(* PATCH /api/v1/users/:id/subscription of revision A, up to the write *)

\* variant: the subscription always ends after one period
endDateAfterOnePeriod(t, durationMonths) == t + ThirtyDays

\* new Date(now.getTime() + (durationMonths * 30 * 24 * 60 * 60 * 1000))
endDateAfter(t, durationMonths) == t + durationMonths * ThirtyDays

updateSubscriptionData(store, id, body, t) ==
    LET found == findUnique(store, ById(id))
        durationMonths == IF body.durationMonths = Null THEN 1 ELSE body.durationMonths[1]
        endDate == endDateAfter(t, durationMonths)
    IN  IF body.planType = Null \/ ~isValidPlanType(body.planType[1]) THEN Reject(400)
        ELSE IF body.subscriptionStatus = Null
                \/ ~isValidSubscriptionStatus(body.subscriptionStatus[1]) THEN Reject(400)
        ELSE IF found = {} THEN Reject(404)
        ELSE Proceed([ResetData(PLAN_LIMITS_A(body.planType[1])) EXCEPT
                 !.planType = body.planType,
                 !.subscriptionStatus = body.subscriptionStatus,
                 !.subscriptioStartDate = Some(Some(t)),
                 !.subscriptionEndDate = Some(Some(endDate))])

updateSubscriptionCatch(err) == 500

(* PATCH /api/v1/users/:id/usage of revision A, up to the write *)

\* variant: the check of what is left is left out
isNeverInsufficient(currentLeft, amount) == FALSE

\* variant: the comparison is made on the unlimited sentinel too
isBelowAmount(currentLeft, amount) == currentLeft < amount

\* variant: a request for all that is left is refused too
isInsufficientOrLast(currentLeft, amount) == currentLeft # -1 /\ currentLeft <= amount

\* currentLeft !== -1 && currentLeft < amount
isInsufficient(currentLeft, amount) == currentLeft # -1 /\ currentLeft < amount

consumeUsageData(store, id, body) ==
    LET found == findUnique(store, ById(id))
        user == CHOOSE u \in found : TRUE
        amount == IF body.amount = Null THEN 1 ELSE body.amount[1]
        type == body.type[1]
        currentLeft == IF type = "message" THEN user.messageLeft ELSE user.documentLeft
    IN  IF body.type = Null \/ body.type[1] \notin {"message", "document"} THEN Reject(400)
        ELSE IF amount < 1 THEN Reject(400)
        ELSE IF found = {} THEN Reject(404)
        ELSE IF isInsufficient(currentLeft, amount) THEN Reject(403)
        ELSE IF type = "message"
             THEN Proceed([NoData EXCEPT
                      !.messagesUsed = Some(user.messagesUsed + amount),
                      !.messageLeft = IF user.messageLeft # -1
                                      THEN Some(user.messageLeft - amount) ELSE Null])
             ELSE Proceed([NoData EXCEPT
                      !.documentsUsed = Some(user.documentsUsed + amount),
                      !.documentLeft = IF user.documentLeft # -1
                                       THEN Some(user.documentLeft - amount) ELSE Null])

consumeUsageCatch(err) == 500

(* PATCH /api/v1/users/:oauthId of revision B, up to the write *)

\* the rest of the body after incrementMessage, incrementDocument, messagesUsed,
\* documentsUsed and planType are taken out of it
RestFields == DataFields \ {"messagesUsed", "documentsUsed", "planType"}

\* the plan change: limits of the new plan, and the subscription that goes with it
planChangeData(newPlan, t) ==
    LET reset == [ResetData(PLAN_LIMITS_B(newPlan)) EXCEPT !.planType = Some(newPlan)]
    IN  IF newPlan \in {"CORE", "ADVANCED", "PRO"}
        THEN [reset EXCEPT !.subscriptioStartDate = Some(Some(t)),
                           !.subscriptionEndDate = Some(Some(AddMonth(t))),
                           !.subscriptionStatus = Some("ACTIVE")]
        ELSE [reset EXCEPT !.subscriptionStatus = Some("CANCELED"),
                           !.subscriptionEndDate = Some(Null),
                           !.subscriptioStartDate = Some(Null)]

\* incrementMessage / messagesUsed
messageUsageData(existingUser, body) ==
    IF body.incrementMessage = Some(TRUE)
    THEN [NoData EXCEPT
             !.messagesUsed = Some(existingUser.messagesUsed + 1),
             !.messageLeft = IF existingUser.messageLeft # -1
                             THEN Some(Max(0, existingUser.messageLeft - 1)) ELSE Null]
    ELSE IF body.messagesUsed # Null
    THEN LET newMessagesUsed == Max(0, body.messagesUsed[1])
             usageDifference == newMessagesUsed - existingUser.messagesUsed
         IN  [NoData EXCEPT
                 !.messagesUsed = Some(newMessagesUsed),
                 !.messageLeft = IF existingUser.messageLeft # -1
                                 THEN Some(Max(0, existingUser.messageLeft - usageDifference))
                                 ELSE Null]
    ELSE NoData

\* incrementDocument / documentsUsed
documentUsageData(existingUser, body) ==
    IF body.incrementDocument = Some(TRUE)
    THEN [NoData EXCEPT
             !.documentsUsed = Some(existingUser.documentsUsed + 1),
             !.documentLeft = IF existingUser.documentLeft # -1
                              THEN Some(Max(0, existingUser.documentLeft - 1)) ELSE Null]
    ELSE IF body.documentsUsed # Null
    THEN LET newDocumentsUsed == Max(0, body.documentsUsed[1])
             usageDifference == newDocumentsUsed - existingUser.documentsUsed
         IN  [NoData EXCEPT
                 !.documentsUsed = Some(newDocumentsUsed),
                 !.documentLeft = IF existingUser.documentLeft # -1
                                  THEN Some(Max(0, existingUser.documentLeft - usageDifference))
                                  ELSE Null]
    ELSE NoData

updateUserByOauthIdData(store, oauthId, body, t) ==
    LET found == findUnique(store, ByOauthId(oauthId))
        existingUser == CHOOSE u \in found : TRUE
        rest == Columns(body, RestFields)
        afterPlan ==
            IF isPlanChange(body.planType, existingUser)
            THEN Merge(rest, planChangeData(body.planType[1], t))
            ELSE rest
        afterUsage ==
            IF ~isTruthy(body.planType)
            THEN Merge(Merge(afterPlan, messageUsageData(existingUser, body)),
                       documentUsageData(existingUser, body))
            ELSE afterPlan
    IN  IF body.email # Null /\ ~isValidEmail(body.email[1]) THEN Reject(400)
        ELSE IF isTruthy(body.planType) /\ ~isValidPlanType(body.planType[1]) THEN Reject(400)
        ELSE IF body.subscriptionStatus # Null
                /\ ~isValidSubscriptionStatus(body.subscriptionStatus[1]) THEN Reject(400)
        ELSE IF found = {} THEN Reject(404)
        ELSE IF IsEmpty(afterUsage) THEN Reject(400)
        ELSE Proceed(afterUsage)

updateUserByOauthIdCatch(err) ==
    IF err = "P2002" THEN 409 ELSE IF err = "P2025" THEN 404 ELSE 500

(* DELETE /api/v1/users/:oauthId, DELETE /api/v1/users/id/:id: up to the write *)

deleteUserData(store, where) ==
    IF findUnique(store, where) = {} THEN Reject(404) ELSE Proceed(NoData)

deleteUserCatch(err) == IF err = "P2025" THEN 404 ELSE 500

----------------------------------------------------------------------------
(* The cron jobs of revision B, each run as one pass *)

\* variant: only the users still marked ACTIVE count as expired
expiredActiveUsers(store, t) ==
    {u \in store : /\ u.subscriptionEndDate # Null
                   /\ u.subscriptionEndDate[1] < t
                   /\ u.subscriptionStatus = "ACTIVE"}

\* where: { subscriptionEndDate: { lt: now }, subscriptionStatus: { not: CANCELED } }
expiredUsers(store, t) ==
    {u \in store : /\ u.subscriptionEndDate # Null
                   /\ u.subscriptionEndDate[1] < t
                   /\ u.subscriptionStatus # "CANCELED"}

\* variant: every user who has not canceled is reset
notCanceledUsers(store) == {u \in store : u.subscriptionStatus # "CANCELED"}

\* the update of an expired user
expiredData ==
    [ResetData(PLAN_LIMITS_B("BASIC")) EXCEPT
        !.planType = Some("BASIC"),
        !.subscriptionStatus = Some("UNPAID"),
        !.subscriptionEndDate = Some(Null),
        !.subscriptioStartDate = Some(Null)]

activeUsers(store) == {u \in store : u.subscriptionStatus = "ACTIVE"}

\* variant: every active user gets the limits of BASIC
resetToBasicLimits(store, userId, planType, t) ==
    prismaUpdate(store, ById(userId), ResetData(PLAN_LIMITS_B("BASIC")), t)

resetUserLimits(store, userId, planType, t) ==
    prismaUpdate(store, ById(userId), ResetData(PLAN_LIMITS_B(planType)), t)

\* a loop over the selected users: the first update that throws ends the loop, and
\* with it the run (one try block around the whole job)
Ok(store) == [err |-> "", store |-> store]

\* for (const user of expiredUsers) await prisma.user.update(...)
RECURSIVE expireEach(_, _, _)
expireEach(store, todo, t) ==
    IF todo = {} THEN Ok(store)
    ELSE LET user == CHOOSE u \in todo : TRUE
             w == prismaUpdate(store, ById(user.id), expiredData, t)
         IN  IF w.err # "" THEN w ELSE expireEach(w.store, todo \ {user}, t)

\* for (const user of activeUsers) await resetUserLimits(user.id, user.planType)
RECURSIVE resetEach(_, _, _)
resetEach(store, todo, t) ==
    IF todo = {} THEN Ok(store)
    ELSE LET user == CHOOSE u \in todo : TRUE
             w == resetUserLimits(store, user.id, user.planType, t)
         IN  IF w.err # "" THEN w ELSE resetEach(w.store, todo \ {user}, t)

\* variant: both lists are read before the first loop, so the second loop resets
\* the users that were active before the expiry
monthlyJobReadFirst(store, t) ==
    LET active == activeUsers(store)
        afterExpiry == expireEach(store, expiredUsers(store, t), t)
    IN  IF afterExpiry.err # "" THEN afterExpiry.store
        ELSE resetEach(afterExpiry.store, active, t).store

\* cron.schedule('0 0 1 * *'): the expired users, then the active users; the catch
\* block logs the error and the run is over
monthlyJob(store, t) ==
    LET afterExpiry == expireEach(store, expiredUsers(store, t), t)
    IN  IF afterExpiry.err # "" THEN afterExpiry.store
        ELSE resetEach(afterExpiry.store, activeUsers(afterExpiry.store), t).store

\* variant: the third day is outside the window
soonToExpireBefore(store, t) ==
    {u \in store : /\ u.subscriptionEndDate # Null
                   /\ u.subscriptionEndDate[1] >= t
                   /\ u.subscriptionEndDate[1] < t + ThreeDays
                   /\ u.subscriptionStatus = "ACTIVE"}

\* where: { subscriptionEndDate: { gte: now, lte: threeDaysFromNow }, subscriptionStatus: ACTIVE }
soonToExpire(store, t) ==
    {u \in store : /\ u.subscriptionEndDate # Null
                   /\ u.subscriptionEndDate[1] >= t
                   /\ u.subscriptionEndDate[1] <= t + ThreeDays
                   /\ u.subscriptionStatus = "ACTIVE"}

\* variant: the sweep also takes away what is left
pastDueRevokingData ==
    [NoData EXCEPT !.subscriptionStatus = Some("PAST_DUE"),
                   !.messageLeft = Some(0),
                   !.documentLeft = Some(0)]

pastDueData == [NoData EXCEPT !.subscriptionStatus = Some("PAST_DUE")]

\* for (const user of soonToExpire) await prisma.user.update(...)
RECURSIVE pastDueEach(_, _, _)
pastDueEach(store, todo, t) ==
    IF todo = {} THEN Ok(store)
    ELSE LET user == CHOOSE u \in todo : TRUE
             w == prismaUpdate(store, ById(user.id), pastDueData, t)
         IN  IF w.err # "" THEN w ELSE pastDueEach(w.store, todo \ {user}, t)

\* cron.schedule('0 0 * * *')
dailyJob(store, t) == pastDueEach(store, soonToExpire(store, t), t).store

----------------------------------------------------------------------------
(* The Clerk webhook *)

\* email_addresses.find(email => email.id === userData.primary_email_address_id)
primaryEmail(userData) ==
    {e \in userData.email_addresses : e.id = userData.primary_email_address_id}

\* variant: a user.created event without a primary email is an error
handleUserCreatedOrThrow(store, id, userData, t) ==
    IF primaryEmail(userData) = {}
    THEN [err |-> "NoPrimaryEmail", store |-> store]
    ELSE LET email == CHOOSE e \in primaryEmail(userData) : TRUE
         IN  prismaCreate(store, id, [NoData EXCEPT !.oauthId = Some(userData.id),
                                                    !.email = Some(email.email_address)], t)

\* handleUserCreated: without a primary email a warning and return; otherwise
\* prisma.user.create with the schema's defaults; the error is rethrown
handleUserCreated(store, id, userData, t) ==
    IF primaryEmail(userData) = {}
    THEN [err |-> "", store |-> store]
    ELSE LET email == CHOOSE e \in primaryEmail(userData) : TRUE
         IN  prismaCreate(store, id, [NoData EXCEPT !.oauthId = Some(userData.id),
                                                    !.email = Some(email.email_address)], t)

\* handleUserUpdated
handleUserUpdated(store, userData, t) ==
    IF primaryEmail(userData) = {}
    THEN [err |-> "", store |-> store]
    ELSE LET email == CHOOSE e \in primaryEmail(userData) : TRUE
         IN  prismaUpdate(store, ByOauthId(userData.id),
                          [NoData EXCEPT !.email = Some(email.email_address)], t)

\* handleUserDeleted
handleUserDeleted(store, userData) ==
    prismaDelete(store, ByOauthId(userData.id))

SvixHeaders == {"svix-id", "svix-timestamp", "svix-signature"}

UserEventTypes == {"user.created", "user.updated", "user.deleted", "user.other"}

\* variant: every event is taken for a user event
isAnyEvent(type) == TRUE

\* eventType.startsWith('user.'), on the event types the model sends
isUserEvent(type) == type \in UserEventTypes

\* res.status(status).json(...) and return: the handler answers, next() is not called
Sent(status, store, err) == [status |-> status, next |-> FALSE, store |-> store, err |-> err]

\* variant: an event kind without a case of its own is handled as a deletion
dispatchUnknownAsDeleted(store, id, event, t) ==
    CASE event.type = "user.created" -> handleUserCreated(store, id, event.data, t)
      [] event.type = "user.updated" -> handleUserUpdated(store, event.data, t)
      [] OTHER -> handleUserDeleted(store, event.data)

\* switch (eventType)
dispatch(store, id, event, t) ==
    CASE event.type = "user.created" -> handleUserCreated(store, id, event.data, t)
      [] event.type = "user.updated" -> handleUserUpdated(store, event.data, t)
      [] event.type = "user.deleted" -> handleUserDeleted(store, event.data)
      [] OTHER -> Ok(store)

\* variant: the event is handled before the headers and the signature are looked at
handleUnverified(store, id, req, t) ==
    LET r == dispatch(store, id, req.event, t)
    IN  IF ~req.secret THEN Sent(500, r.store, "")
        ELSE IF req.headers # SvixHeaders THEN Sent(400, r.store, "")
        ELSE IF ~req.signed THEN Sent(400, r.store, "")
        ELSE Sent(IF r.err = "" THEN 200 ELSE 500, r.store, r.err)

\* handleUserWebhook: 500 without a secret, 400 on a missing header or a signature
\* that does not verify; a user.* event is handled and answered 200, or 500 from
\* the catch block; another event is answered by nobody here (0) and goes to next()
handleUserWebhook(store, id, req, t) ==
    IF ~req.secret THEN Sent(500, store, "")
    ELSE IF req.headers # SvixHeaders THEN Sent(400, store, "")
    ELSE IF ~req.signed THEN Sent(400, store, "")
    ELSE IF isUserEvent(req.event.type)
    THEN LET r == dispatch(store, id, req.event, t)
         IN  Sent(IF r.err = "" THEN 200 ELSE 500, r.store, r.err)
    ELSE [status |-> 0, next |-> TRUE, store |-> store, err |-> ""]

----------------------------------------------------------------------------
(* The error handlers of the application *)

\* prismaErrorHandler and globalErrorHandler: the status for the code of an error
\* that comes to them through next(error)
prismaErrorHandler(code) ==
    CASE code = "P2002" -> 409
      [] code = "P2003" -> 400
      [] code = "P2025" -> 404
      [] code \in {"P1001", "P1009"} -> 503
      [] OTHER -> 500

----------------------------------------------------------------------------
(* The router's paths and its last layer *)

\* a path is the sequence of its pieces: "/api/v10/users" is
\* <<"/api", "/v1", "0", "/users">>, so that startsWith is the prefix of sequences
BASE_PATH == <<"/api", "/v1">>

WebhookPrefix == <<"/api", "/userWebhook">>

WebhookPath == WebhookPrefix \o <<"/clerk">>

HealthPath == <<"/health">>

\* pieces that continue the segment before them
Continuations == {"0", "z"}

Param == "/:param"

\* String.prototype.startsWith
startsWith(path, prefix) ==
    /\ Len(path) >= Len(prefix)
    /\ SubSeq(path, 1, Len(prefix)) = prefix

\* the routes of the router, in the order of the file
Routes ==
    {[method |-> "POST", path |-> WebhookPath],
     [method |-> "GET", path |-> HealthPath],
     [method |-> "GET", path |-> BASE_PATH \o <<"/try">>],
     [method |-> "POST", path |-> BASE_PATH \o <<"/users">>],
     [method |-> "GET", path |-> BASE_PATH \o <<"/users", Param>>],
     [method |-> "GET", path |-> BASE_PATH \o <<"/users", "/email", Param>>],
     [method |-> "GET", path |-> BASE_PATH \o <<"/users", "/id", Param>>],
     [method |-> "GET", path |-> BASE_PATH \o <<"/users">>],
     [method |-> "PATCH", path |-> BASE_PATH \o <<"/users", Param>>],
     [method |-> "DELETE", path |-> BASE_PATH \o <<"/users", Param>>],
     [method |-> "DELETE", path |-> BASE_PATH \o <<"/users", "/id", Param>>]}

\* the path of a request against the path of a route: a parameter takes one segment
matchesPath(path, pattern) ==
    /\ Len(path) = Len(pattern)
    /\ \A i \in 1..Len(path) :
           IF pattern[i] = Param THEN path[i] \notin Continuations ELSE path[i] = pattern[i]

isRouted(method, path) ==
    \E route \in Routes : route.method = method /\ matchesPath(path, route.path)

\* variant: the last layer hands every request on, to notFoundHandler and
\* globalErrorHandler of the application
catchAllNotFound(path) == 404

\* router.use((req, res) => ...): 400 outside the prefixes; inside them nothing is
\* sent and next() is not called, the request stays without an answer (0)
catchAll(path) ==
    IF /\ ~startsWith(path, BASE_PATH)
       /\ ~startsWith(path, WebhookPrefix)
       /\ path # HealthPath
    THEN 400
    ELSE 0

----------------------------------------------------------------------------
(* What the model sends *)

LeftInputs == 0..MaxUsed

AmountInputs == {0, 1, 2, 21}

Body1(f, v) == [NoBody EXCEPT ![f] = Some(v)]

\* POST /users for one identity and a plan
CreateBody(e, o, p) == [NoBody EXCEPT !.email = Some(e), !.oauthId = Some(o), !.planType = p]

SubscriptionBody(p, x, d) ==
    [NoBody EXCEPT !.planType = Some(p), !.subscriptionStatus = Some(x), !.durationMonths = d]

UsageBody(k, a) == [NoBody EXCEPT !.type = Some(k), !.amount = a]

WebhookEvents ==
    {[type |-> k,
      data |-> [id |-> o,
                email_addresses |-> {[id |-> "idn_1", email_address |-> e]},
                primary_email_address_id |-> pid]]
        : k \in UserEventTypes \cup {"session.created"},
          o \in OauthIds, e \in Emails, pid \in {"idn_1", "idn_2"}}

\* a delivery of an event: with the secret configured, all headers and a signature
\* that verifies
Delivery(event) == [secret |-> TRUE, headers |-> SvixHeaders, signed |-> TRUE, event |-> event]

\* a webhook request as the record of a request
EventBody(req) ==
    [NoBody EXCEPT !.type = Some(req.event.type),
                   !.oauthId = Some(req.event.data.id),
                   !.email = IF primaryEmail(req.event.data) = {} THEN Null
                             ELSE Some((CHOOSE e \in primaryEmail(req.event.data) : TRUE).email_address),
                   !.svix = Some(req.headers),
                   !.signed = Some(req.signed),
                   !.secret = Some(req.secret)]

----------------------------------------------------------------------------
(* The state machine *)

Ids == 1..MaxUsers

\* no cron job has run yet
NoJob ==
    [op |-> "none", step |-> "idle", selected |-> {}, todo |-> {}, done |-> {},
     failed |-> {}, t |-> 0]

Init ==
    /\ users = {}
    /\ nextId = 1
    /\ now = 0
    /\ pending = EmptyBag
    /\ job = NoJob
    /\ last = [op |-> "init", uid |-> 0, body |-> NoBody, status |-> 0, t |-> 0,
               next |-> FALSE, after |-> 0, path |-> <<>>, again |-> FALSE, err |-> ""]
    /\ pre = {}

\* the used counters stay within the model's cap
WithinCap(store) ==
    \A u \in store : u.messagesUsed <= MaxUsed /\ u.documentsUsed <= MaxUsed

\* the id of the row a request names, 0 when there is none
IdOf(store, where) ==
    IF where.by = "id" THEN where.id
    ELSE IF findUnique(store, where) = {} THEN 0
    ELSE (CHOOSE u \in findUnique(store, where) : TRUE).id

\* the part of a handler up to its write: the status it answers with at once,
\* or status 0 and the data it goes on to write
DataOf(op, store, where, body, t) ==
    CASE op = "createUser"          -> createUserData(store, body)
      [] op = "updateUserById"      -> updateUserByIdData(store, where.id, body)
      [] op = "updateSubscription"  -> updateSubscriptionData(store, where.id, body, t)
      [] op = "consumeUsage"        -> consumeUsageData(store, where.id, body)
      [] op = "updateUserByOauthId" -> updateUserByOauthIdData(store, where.oauthId, body, t)
      [] op = "deleteUser"          -> deleteUserData(store, where)

\* the write of a handler
WriteOf(op, store, id, where, data, t) ==
    CASE op = "createUser" -> prismaCreate(store, id, data, t)
      [] op = "deleteUser" -> prismaDelete(store, where)
      [] OTHER             -> prismaUpdate(store, where, data, t)

\* the catch block of a handler
CatchOf(op, err) ==
    CASE op = "createUser"          -> createUserCatch(err)
      [] op = "updateUserById"      -> updateUserByIdCatch(err)
      [] op = "updateSubscription"  -> updateSubscriptionCatch(err)
      [] op = "consumeUsage"        -> consumeUsageCatch(err)
      [] op = "updateUserByOauthId" -> updateUserByOauthIdCatch(err)
      [] op = "deleteUser"          -> deleteUserCatch(err)

\* the request has gone through its handler, which sent status (0: it sent
\* nothing); where the handler called next(), after is what the layers behind it
\* sent: the table, and the record of the request, with again for a webhook
\* delivery that repeats the request before it and err for the code of the error
\* its write has thrown
AnswerAt(op, uid, body, status, store, t, next, after, path, err) ==
    /\ WithinCap(store)
    /\ users' = store
    /\ pre' = users
    /\ last' = [op |-> op, uid |-> uid, body |-> body, status |-> status, t |-> t,
                next |-> next, after |-> after, path |-> path,
                again |-> op = "userWebhook" /\ last.op = op /\ last.body = body,
                err |-> err]

\* the request is answered by its handler (status 0: it is left without an answer)
Answer(op, uid, body, status, store, t) ==
    AnswerAt(op, uid, body, status, store, t, FALSE, 0, <<>>, "")

\* the write of a request and its answer
Respond(op, where, body, data, t) ==
    LET w == WriteOf(op, users, nextId, where, data, now)
        created == op = "createUser" /\ w.err = ""
    IN  /\ AnswerAt(op, IF created THEN nextId ELSE IdOf(users, where), body,
                    IF w.err = "" THEN 200 ELSE CatchOf(op, w.err), w.store, t,
                    FALSE, 0, <<>>, w.err)
        /\ nextId' = IF created THEN nextId + 1 ELSE nextId

\* a request handled with no other request between its read and its write
Handle(op, where, body) ==
    LET plan == DataOf(op, users, where, body, now)
    IN  IF Invocations(op, body) = 0
        THEN Answer(op, IdOf(users, where), body, 0, users, now) /\ nextId' = nextId
        ELSE IF plan.status # 0
        THEN Answer(op, IdOf(users, where), body, plan.status, users, now) /\ nextId' = nextId
        ELSE Respond(op, where, body, plan.data, now)

\* a request up to the await of its write: it is answered at once, or it waits
\* with the data it has computed
Begin(op, where, body) ==
    /\ BagCardinality(pending) < MaxPending
    /\ LET plan == DataOf(op, users, where, body, now)
       IN  IF Invocations(op, body) = 0 \/ plan.status # 0
           THEN /\ Answer(op, IdOf(users, where), body,
                          IF Invocations(op, body) = 0 THEN 0 ELSE plan.status, users, now)
                /\ UNCHANGED pending
           ELSE /\ pending' = pending (+) SetToBag(
                       {[op |-> op, where |-> where, body |-> body, data |-> plan.data, t |-> now]})
                /\ UNCHANGED <<users, last, pre>>
    /\ UNCHANGED <<nextId, now, job>>

\* the write of a waiting request, and its answer
Finish(r) ==
    /\ BagIn(r, pending)
    /\ r.op = "createUser" =>
           \/ nextId <= MaxUsers
           \/ prismaCreate(users, nextId, r.data, now).err # ""
    /\ Respond(r.op, r.where, r.body, r.data, r.t)
    /\ pending' = pending (-) SetToBag({r})
    /\ UNCHANGED <<now, job>>

\* POST /api/v1/users
CreateUser(body) ==
    /\ nextId <= MaxUsers
    /\ Handle("createUser", ByOauthId(body.oauthId[1]), body)
    /\ UNCHANGED <<now, pending, job>>

\* PATCH /api/v1/users/:id
UpdateUserById(id, body) ==
    /\ Handle("updateUserById", ById(id), body)
    /\ UNCHANGED <<now, pending, job>>

\* PATCH /api/v1/users/:id/subscription
UpdateSubscription(id, body) ==
    /\ Handle("updateSubscription", ById(id), body)
    /\ UNCHANGED <<now, pending, job>>

\* PATCH /api/v1/users/:id/usage
ConsumeUsage(id, body) ==
    /\ Handle("consumeUsage", ById(id), body)
    /\ UNCHANGED <<now, pending, job>>

\* PATCH /api/v1/users/:oauthId
UpdateUserByOauthId(oauthId, body) ==
    /\ Handle("updateUserByOauthId", ByOauthId(oauthId), body)
    /\ UNCHANGED <<now, pending, job>>

\* DELETE /api/v1/users/:oauthId
DeleteUser(oauthId, token) ==
    /\ Handle("deleteUser", ByOauthId(oauthId), [NoBody EXCEPT !.authorization = token])
    /\ UNCHANGED <<now, pending, job>>

\* POST /api/userWebhook/clerk
UserWebhook(req) ==
    /\ nextId <= MaxUsers \/ Cardinality(handleUserWebhook(users, nextId, req, now).store) <= Cardinality(users)
    /\ LET r == handleUserWebhook(users, nextId, req, now)
           created == req.event.type = "user.created" /\ r.store # users
       IN  /\ AnswerAt("userWebhook",
                       IF created THEN nextId ELSE IdOf(users, ByOauthId(req.event.data.id)),
                       EventBody(req), r.status, r.store, now,
                       r.next, IF r.next THEN catchAll(WebhookPath) ELSE 0, WebhookPath, r.err)
           /\ nextId' = IF created THEN nextId + 1 ELSE nextId
    /\ UNCHANGED <<now, pending, job>>

\* a request that no route of the router takes: it comes to the last layer
Unrouted(method, path) ==
    /\ ~isRouted(method, path)
    /\ AnswerAt("unrouted", 0, NoBody, catchAll(path), users, now, FALSE, 0, path, "")
    /\ UNCHANGED <<nextId, now, pending, job>>

\* cron.schedule('0 0 1 * *')
MonthlyJob ==
    /\ IsFirstOfMonth(now)
    /\ Answer("monthlyJob", 0, NoBody, 200, monthlyJob(users, now), now)
    /\ UNCHANGED <<nextId, now, pending, job>>

\* cron.schedule('0 0 * * *')
DailyJob ==
    /\ Answer("dailyJob", 0, NoBody, 200, dailyJob(users, now), now)
    /\ UNCHANGED <<nextId, now, pending, job>>

\* a run of a cron job is between two of its awaits
JobRunning == job.step \in {"expire", "reset", "sweep"}

\* a run that has just read the users of a loop: the rows as read, none updated yet;
\* with no user to update the run is over, unless the loop is the first of two
JobAt(op, step, rows, t) ==
    [op |-> op,
     step |-> IF rows = {} /\ step # "expire" THEN "done" ELSE step,
     selected |-> rows, todo |-> rows, done |-> {}, failed |-> {}, t |-> t]

\* cron.schedule('0 0 1 * *'), up to the first findMany
BeginMonthlyJob ==
    /\ ~JobRunning
    /\ IsFirstOfMonth(now)
    /\ job' = JobAt("monthlyJob", "expire", expiredUsers(users, now), now)
    /\ UNCHANGED <<users, nextId, now, pending, last, pre>>

\* cron.schedule('0 0 * * *'), up to its findMany
BeginDailyJob ==
    /\ ~JobRunning
    /\ job' = JobAt("dailyJob", "sweep", soonToExpire(users, now), now)
    /\ UNCHANGED <<users, nextId, now, pending, last, pre>>

\* the update a loop makes for a user it has read
JobWrite(store, step, user, t) ==
    CASE step = "expire" -> prismaUpdate(store, ById(user.id), expiredData, t)
      [] step = "reset"  -> resetUserLimits(store, user.id, user.planType, t)
      [] step = "sweep"  -> prismaUpdate(store, ById(user.id), pastDueData, t)

\* the next await of the run: the update of one of the users read, in the order the
\* table returned them, or the second findMany of the monthly job.  An update that
\* throws takes the run to its catch block.
JobStep ==
    /\ JobRunning
    /\ IF job.todo = {}
       THEN /\ job' = JobAt(job.op, "reset", activeUsers(users), job.t)
            /\ UNCHANGED users
       ELSE \E user \in job.todo :
                LET w == JobWrite(users, job.step, user, now)
                    rest == job.todo \ {user}
                IN  /\ users' = w.store
                    /\ job' = IF w.err # ""
                              THEN [job EXCEPT !.step = "failed", !.failed = {user.id}]
                              ELSE [job EXCEPT
                                       !.todo = rest,
                                       !.done = @ \cup {user.id},
                                       !.step = IF rest = {} /\ @ # "expire" THEN "done" ELSE @]
    /\ UNCHANGED <<nextId, now, pending, last, pre>>

\* a day passes
Tick ==
    /\ now < MaxTime
    /\ now' = now + 1
    /\ UNCHANGED <<users, nextId, pending, job, last, pre>>

----------------------------------------------------------------------------
(* Plan changes and subscriptions of one user, over the days *)

PlanCreateBodies == {CreateBody("a@b.com", "x1", p) : p \in {Null, Some("CORE")}}

\* a body that names a plan and a left counter
PlanAndLeft(p, n) == [NoBody EXCEPT !.planType = Some(p), !.messageLeft = Some(n)]

PlanUpdateByIdBodies == {Body1("planType", p) : p \in PlanType}

PlanUpdateByOauthIdBodies ==
    {Body1("planType", p) : p \in PlanType}
        \cup {Body1("incrementMessage", TRUE), PlanAndLeft("CORE", 1)}

PlanSubscriptionBodies ==
    {SubscriptionBody("BASIC", "ACTIVE", Null), SubscriptionBody("PRO", "ACTIVE", Some(2)),
     SubscriptionBody("PRO", "CANCELED", Null)}

NextPlan ==
    \/ \E body \in PlanCreateBodies : CreateUser(body)
    \/ \E body \in PlanUpdateByIdBodies : UpdateUserById(1, body)
    \/ \E body \in PlanSubscriptionBodies : UpdateSubscription(1, body)
    \/ \E body \in PlanUpdateByOauthIdBodies : UpdateUserByOauthId("x1", body)
    \/ Tick

SpecPlan == Init /\ [][NextPlan]_vars

----------------------------------------------------------------------------
(* The two cron jobs over the days, with subscriptions set by PATCH /users/:oauthId *)

JobsCreateBodies ==
    {CreateBody("a@b.com", "x1", Some("CORE")), CreateBody("c@d.com", "x2", Null)}

\* the paying user gets an active subscription that ends on day 1, moves the end
\* date ahead and reports messages used; the other user is made active, or
\* canceled with an end date
JobsUpdateBodies(oauthId) ==
    IF oauthId = "x1"
    THEN {[NoBody EXCEPT !.subscriptionStatus = Some("ACTIVE"), !.subscriptionEndDate = Some(1)],
          Body1("subscriptionEndDate", MaxTime + 1),
          Body1("messagesUsed", MaxUsed)}
    ELSE {Body1("subscriptionStatus", "ACTIVE"),
          [NoBody EXCEPT !.subscriptionStatus = Some("CANCELED"), !.subscriptionEndDate = Some(1)]}

NextJobs ==
    \/ \E body \in JobsCreateBodies : CreateUser(body)
    \/ \E oauthId \in OauthIds : \E body \in JobsUpdateBodies(oauthId) : UpdateUserByOauthId(oauthId, body)
    \/ MonthlyJob
    \/ DailyJob
    \/ Tick

SpecJobs == Init /\ [][NextJobs]_vars

----------------------------------------------------------------------------
(* Usage of one user, with no request running beside another and the clock still *)

QuotaCreateBodies == {CreateBody("a@b.com", "x1", p) : p \in {Null, Some("BASIC"), Some("CORE")}}

\* left counters set by hand, and the plan with the unlimited sentinel
QuotaUpdateByIdBodies ==
    {Body1(f, n) : f \in {"messageLeft", "documentLeft"}, n \in LeftInputs}
        \cup {Body1("planType", "PRO")}

QuotaUsageBodies ==
    {UsageBody(k, a) : k \in {"message", "document"}, a \in {Null} \cup {Some(n) : n \in AmountInputs}}
        \cup {UsageBody("video", Some(1)), NoBody}

NextQuota ==
    \/ \E body \in QuotaCreateBodies : CreateUser(body)
    \/ \E body \in QuotaUpdateByIdBodies : UpdateUserById(1, body)
    \/ \E body \in QuotaUsageBodies : ConsumeUsage(1, body)

SpecQuota == Init /\ [][NextQuota]_vars

----------------------------------------------------------------------------
(* Usage requests of one user that run beside one another: each reads the row,
   waits, and writes what it computed from what it read *)

UsageRaceBodies == {UsageBody("message", Some(n)) : n \in {1, 2}}

\* PATCH /api/v1/users/:id/usage, up to the await of its write
BeginConsumeUsage(id, body) ==
    /\ Has(users, id)
    /\ Begin("consumeUsage", ById(id), body)

NextUsageRace ==
    \/ CreateUser(CreateBody("a@b.com", "x1", Null))
    \/ \E id \in Ids, n \in {1, 2} : UpdateUserById(id, Body1("messageLeft", n))
    \/ \E id \in Ids, body \in UsageRaceBodies : BeginConsumeUsage(id, body)
    \/ \E r \in BagToSet(pending) : Finish(r)

SpecUsageRace == Init /\ [][NextUsageRace]_vars

----------------------------------------------------------------------------
(* Usage requests of one user that run beside a plan change or a new
   subscription of that user *)

PlanRaceBodies == {Body1("planType", p) : p \in {"BASIC", "CORE"}}

NextPlanRace ==
    \/ CreateUser(CreateBody("a@b.com", "x1", Null))
    \/ \E body \in PlanRaceBodies : UpdateUserById(1, body)
    \/ UpdateSubscription(1, SubscriptionBody("ADVANCED", "ACTIVE", Null))
    \/ BeginConsumeUsage(1, UsageBody("message", Some(1)))
    \/ \E r \in BagToSet(pending) : Finish(r)

SpecPlanRace == Init /\ [][NextPlanRace]_vars

----------------------------------------------------------------------------
(* Usage of a user on the plan PRO of revision A, whose left counters hold the
   unlimited sentinel: by the usage endpoint and by PATCH /users/:oauthId *)

SentinelUsageBodies ==
    {UsageBody(k, a) : k \in {"message", "document"}, a \in {Null, Some(1), Some(2)}}

SentinelUpdateBodies ==
    {Body1(f, TRUE) : f \in {"incrementMessage", "incrementDocument"}}
        \cup {Body1(f, n) : f \in {"messagesUsed", "documentsUsed"}, n \in 0..MaxUsed}

NextSentinel ==
    \/ CreateUser(CreateBody("a@b.com", "x1", Null))
    \/ \E p \in {"CORE", "PRO"} : UpdateUserById(1, Body1("planType", p))
    \/ \E body \in SentinelUsageBodies : ConsumeUsage(1, body)
    \/ \E body \in SentinelUpdateBodies : UpdateUserByOauthId("x1", body)

SpecSentinel == Init /\ [][NextSentinel]_vars

-----------------------------------------------------------------------------
(* Counters written by hand: PATCH /users/:oauthId passes the rest of the body
   to the update, PATCH /users/:id passes the whole body, and neither looks at
   the sign of a counter; usage by the endpoint and by increment follows *)

DirectValues == {0 - 2, 0, 2}

DirectByOauthIdBodies ==
    {Body1(f, n) : f \in {"messageLeft", "documentLeft"}, n \in DirectValues}
        \cup {Body1(f, TRUE) : f \in {"incrementMessage", "incrementDocument"}}

DirectByIdBodies == {Body1("messagesUsed", 0 - 1)}

DirectUsageBodies == {UsageBody(k, Null) : k \in {"message", "document"}}

NextDirect ==
    \/ CreateUser(CreateBody("a@b.com", "x1", Null))
    \/ \E body \in DirectByOauthIdBodies : UpdateUserByOauthId("x1", body)
    \/ \E body \in DirectByIdBodies : UpdateUserById(1, body)
    \/ \E body \in DirectUsageBodies : ConsumeUsage(1, body)

SpecDirect == Init /\ [][NextDirect]_vars

-----------------------------------------------------------------------------
(* Requests that are turned down: bodies that fail validation, users that do not
   exist, usage beyond what is left, identities that are taken *)

RejectedCreateBodies ==
    {CreateBody("a@b.com", "x1", Null), CreateBody("c@d.com", "x2", Null),
     CreateBody("a@b", "x2", Null), CreateBody("a@b.com", "x2", Some("GOLD"))}

RejectedUpdateBodies ==
    {Body1("email", "c@d.com"), Body1("email", "a@b"), Body1("planType", "GOLD"),
     Body1("incrementMessage", TRUE), NoBody}

RejectedUsageBodies ==
    {UsageBody(k, a) : k \in {"message", "document", "page"}, a \in {Null, Some(0), Some(21)}}

NextRejected ==
    \/ \E body \in RejectedCreateBodies : CreateUser(body)
    \/ \E oauthId \in OauthIds, body \in RejectedUpdateBodies : UpdateUserByOauthId(oauthId, body)
    \/ \E id \in Ids, body \in RejectedUsageBodies : ConsumeUsage(id, body)
    \/ \E oauthId \in OauthIds : DeleteUser(oauthId, Null)

SpecRejected == Init /\ [][NextRejected]_vars

-----------------------------------------------------------------------------
(* PATCH /users/:oauthId with bodies that carry a plan, usage by increment and
   usage by absolute value together *)

PatchPlans == {Null, Some(""), Some("BASIC"), Some("CORE")}

PatchBodies ==
    {[NoBody EXCEPT !.planType = p, !.incrementMessage = i, !.messagesUsed = m,
                    !.incrementDocument = j, !.documentsUsed = d, !.email = e] :
        p \in PatchPlans, i \in {Null, Some(TRUE)}, m \in {Null, Some(MaxUsed)},
        j \in {Null, Some(TRUE)}, d \in {Null, Some(1)}, e \in {Null, Some("a@b.com")}}

NextPatch ==
    \/ CreateUser(CreateBody("a@b.com", "x1", Null))
    \/ \E body \in PatchBodies : UpdateUserByOauthId("x1", body)
    \/ ConsumeUsage(1, UsageBody("message", Null))

SpecPatch == Init /\ [][NextPatch]_vars

----------------------------------------------------------------------------
(* Usage requests for one message each, beside one another, with no other write
   to the rows than theirs *)

LostUpdateCreateBodies == {CreateBody("a@b.com", "x1", Null), CreateBody("c@d.com", "x2", Null)}

LostUpdateBodies == {UsageBody("message", Some(1)), UsageBody("message", Null)}

NextLostUpdate ==
    \/ \E body \in LostUpdateCreateBodies : CreateUser(body)
    \/ \E id \in Ids, body \in LostUpdateBodies : BeginConsumeUsage(id, body)
    \/ \E r \in BagToSet(pending) : Finish(r)

SpecLostUpdate == Init /\ [][NextLostUpdate]_vars

----------------------------------------------------------------------------
(* Identities: API creates and updates that run beside one another and beside
   the webhook, whose handlers make a single call to the table *)

IdentityCreateBodies == {CreateBody(e, o, Null) : e \in Emails, o \in OauthIds}

IdentityUpdateBodies == {Body1("email", "c@d.com"), Body1("oauthId", "x2")}

IdentityEvents ==
    {event \in WebhookEvents : /\ event.type \in {"user.created", "user.updated"}
                               /\ event.data.primary_email_address_id = "idn_1"}

\* POST /api/v1/users, up to the await of its write
BeginCreateUser(body) ==
    /\ nextId <= MaxUsers
    /\ Begin("createUser", ByOauthId(body.oauthId[1]), body)

\* PATCH /api/v1/users/:id, up to the await of its write
BeginUpdateUserById(id, body) ==
    /\ Has(users, id)
    /\ Begin("updateUserById", ById(id), body)

\* PATCH /api/v1/users/:oauthId, up to the await of its write
BeginUpdateUserByOauthId(oauthId, body) ==
    /\ findUnique(users, ByOauthId(oauthId)) # {}
    /\ Begin("updateUserByOauthId", ByOauthId(oauthId), body)

NextIdentity ==
    \/ \E body \in IdentityCreateBodies : BeginCreateUser(body)
    \/ \E id \in Ids, body \in IdentityUpdateBodies : BeginUpdateUserById(id, body)
    \/ \E oauthId \in OauthIds :
           BeginUpdateUserByOauthId(oauthId, Body1("email", "a@b.com"))
    \/ \E event \in IdentityEvents : UserWebhook(Delivery(event))
    \/ \E r \in BagToSet(pending) : Finish(r)

SpecIdentity == Init /\ [][NextIdentity]_vars

----------------------------------------------------------------------------
(* The counters of one user between resets: usage reported by increment, by
   absolute value and by the usage endpoint; plan changes, subscriptions and the
   monthly job reset them *)

CountersCreateBodies == {CreateBody("a@b.com", "x1", p) : p \in {Null, Some("CORE")}}

CountersUpdateBodies ==
    {Body1(f, TRUE) : f \in {"incrementMessage", "incrementDocument"}}
        \cup {Body1(f, n) : f \in {"messagesUsed", "documentsUsed"}, n \in 0..MaxUsed}
        \cup {Body1("planType", p) : p \in {"BASIC", "CORE"}}

CountersUsageBodies == {UsageBody(k, Null) : k \in {"message", "document"}}

NextCounters ==
    \/ \E body \in CountersCreateBodies : CreateUser(body)
    \/ \E body \in CountersUpdateBodies : UpdateUserByOauthId("x1", body)
    \/ \E body \in CountersUsageBodies : ConsumeUsage(1, body)
    \/ UpdateSubscription(1, SubscriptionBody("CORE", "ACTIVE", Null))
    \/ MonthlyJob
    \/ Tick

SpecCounters == Init /\ [][NextCounters]_vars

----------------------------------------------------------------------------
(* Deliveries to the webhook: with and without the svix headers, with a signature
   that verifies and one that does not, with and without the secret configured *)

HeaderInputs == {SvixHeaders, {}} \cup {SvixHeaders \ {h} : h \in SvixHeaders}

\* the events sent without the headers, the signature or the secret
UnverifiedEvents ==
    {event \in WebhookEvents : /\ event.data.primary_email_address_id = "idn_1"
                               /\ event.data.email_addresses = {[id |-> "idn_1", email_address |-> "a@b.com"]}}

WebhookRequests ==
    {Delivery(event) : event \in WebhookEvents}
    \cup {[Delivery(event) EXCEPT !.headers = h, !.signed = g]
            : h \in HeaderInputs, g \in BOOLEAN, event \in UnverifiedEvents}
    \cup {[Delivery(event) EXCEPT !.secret = FALSE] : event \in UnverifiedEvents}

Methods == {"GET", "POST"}

\* paths outside the prefixes of the router, paths that go on from a prefix, and
\* paths of routes
PathInputs ==
    {<<"/">>, <<"/users">>, <<"/api">>, <<"/api", "/v2", "/users">>,
     <<"/api", "/userWebhoo">>, <<"/health", "z">>, <<"/health", "/">>,
     BASE_PATH \o <<"0", "/users">>, BASE_PATH \o <<"/nothing">>,
     WebhookPrefix \o <<"/stripe">>, HealthPath, WebhookPath, BASE_PATH \o <<"/users">>}

NextWebhook ==
    \/ \E req \in WebhookRequests : UserWebhook(req)
    \/ \E method \in Methods : \E path \in PathInputs : Unrouted(method, path)

SpecWebhook == Init /\ [][NextWebhook]_vars

----------------------------------------------------------------------------
(* Verified deliveries of the three user events over the days, each of which may
   come again *)

RedeliveryEvents ==
    {event \in WebhookEvents : /\ event.type \in {"user.created", "user.updated", "user.deleted"}
                               /\ event.data.primary_email_address_id = "idn_1"}

NextRedelivery ==
    \/ \E event \in RedeliveryEvents : UserWebhook(Delivery(event))
    \/ Tick

SpecRedelivery == Init /\ [][NextRedelivery]_vars

----------------------------------------------------------------------------
(* Requests to the routes behind clerkAuthenticate, with a valid bearer token, an
   invalid one and none *)

WithToken(body, token) == [body EXCEPT !.authorization = token]

AuthUpdateBodies == {Body1("planType", "CORE"), Body1("messageLeft", 1)}

AuthUsageBodies == {UsageBody("message", Null), UsageBody("document", Null)}

NextAuth ==
    \/ \E token \in Tokens : CreateUser(WithToken(CreateBody("a@b.com", "x1", Null), token))
    \/ \E token \in Tokens, body \in AuthUpdateBodies : UpdateUserById(1, WithToken(body, token))
    \/ \E token \in Tokens :
           UpdateSubscription(1, WithToken(SubscriptionBody("CORE", "ACTIVE", Null), token))
    \/ \E token \in Tokens, body \in AuthUsageBodies : ConsumeUsage(1, WithToken(body, token))
    \/ \E token \in Tokens : DeleteUser("x1", token)

SpecAuth == Init /\ [][NextAuth]_vars

----------------------------------------------------------------------------
(* The cron jobs await by await, with users deleted while a run is under way *)

\* an active subscription that ends on day 1
EndingBody ==
    [NoBody EXCEPT !.subscriptionStatus = Some("ACTIVE"), !.subscriptionEndDate = Some(1)]

NextJobSteps ==
    \/ \E body \in JobsCreateBodies : CreateUser(body)
    \/ \E oauthId \in OauthIds : UpdateUserByOauthId(oauthId, EndingBody)
    \/ \E oauthId \in OauthIds : DeleteUser(oauthId, Null)
    \/ BeginMonthlyJob
    \/ BeginDailyJob
    \/ JobStep
    \/ Tick

SpecJobSteps == Init /\ [][NextJobSteps]_vars

----------------------------------------------------------------------------
(* The monthly job, await by await, beside the renewal of a user it has read *)

\* PATCH /users/:oauthId with a paid plan: ACTIVE for a month from the request
RenewalBodies == {Body1("planType", p) : p \in {"CORE", "ADVANCED"}}

NextJobRace ==
    \/ CreateUser(CreateBody("a@b.com", "x1", Some("CORE")))
    \/ UpdateUserByOauthId("x1", EndingBody)
    \/ \E body \in RenewalBodies : UpdateUserByOauthId("x1", body)
    \/ BeginMonthlyJob
    \/ JobStep
    \/ Tick

SpecJobRace == Init /\ [][NextJobRace]_vars

-----------------------------------------------------------------------------
(* The cron jobs as the scheduler fires them: at the midnight that starts a day
   the daily callback runs once, and on the first of a month the monthly
   callback runs once, await by await.  Subscriptions are set up on day 0 and
   no request touches a user after it. *)

FairCreateBodies ==
    {CreateBody("a@b.com", "x1", Some("CORE")), CreateBody("c@d.com", "x2", Null)}

\* an active subscription that ends on day 1 for the paying user; for the other
\* one an unpaid subscription that ended on day 0, a canceled one, or an active
\* one that ends after the clock stops
FairUpdateBodies(oauthId) ==
    IF oauthId = "x1"
    THEN {EndingBody}
    ELSE {[NoBody EXCEPT !.subscriptionStatus = Some("UNPAID"), !.subscriptionEndDate = Some(0)],
          [NoBody EXCEPT !.subscriptionStatus = Some("CANCELED"), !.subscriptionEndDate = Some(1)],
          [NoBody EXCEPT !.subscriptionStatus = Some("ACTIVE"), !.subscriptionEndDate = Some(MaxTime + 1)]}

\* '0 0 1 * *' has not fired yet for the day that has begun
MonthlyDue == now > 0 /\ IsFirstOfMonth(now) /\ ~(job.op = "monthlyJob" /\ job.t = now)

\* '0 0 * * *' has not fired yet for the day that has begun
DailyDue == now > 0 /\ ~(last.op = "dailyJob" /\ last.t = now)

FireMonthly == MonthlyDue /\ BeginMonthlyJob

FireDaily == DailyDue /\ DailyJob

\* the next midnight comes when the callbacks of this one have run
Midnight == ~MonthlyDue /\ ~DailyDue /\ ~JobRunning /\ Tick

\* the requests of day 0
SetUpUser(body) == now = 0 /\ CreateUser(body)

SetUpSubscription(oauthId, body) == now = 0 /\ UpdateUserByOauthId(oauthId, body)

NextJobsFair ==
    \/ \E body \in FairCreateBodies : SetUpUser(body)
    \/ \E oauthId \in OauthIds : \E body \in FairUpdateBodies(oauthId) :
           SetUpSubscription(oauthId, body)
    \/ FireMonthly
    \/ FireDaily
    \/ JobStep
    \/ Midnight

SpecJobsFair ==
    /\ Init /\ [][NextJobsFair]_vars
    /\ WF_vars(FireMonthly) /\ WF_vars(FireDaily) /\ WF_vars(JobStep) /\ WF_vars(Midnight)

----------------------------------------------------------------------------
(* Properties.  last is the last request or job run, pre the table before it. *)

PaidPlans == {"CORE", "ADVANCED", "PRO"}

\* the last request was an answered PATCH of a stored user that named a plan
PlanRequested ==
    /\ last.op \in {"updateUserById", "updateUserByOauthId"}
    /\ last.status = 200
    /\ last.body.planType # Null
    /\ Has(pre, last.uid)
    /\ Has(users, last.uid)

\* ... and the plan it named is not the plan the user was on
PlanChanged ==
    /\ PlanRequested
    /\ last.body.planType[1] # Row(pre, last.uid).planType

\* the limits table of the revision a handler belongs to
LimitsFor(op, plan) ==
    IF op = "updateUserByOauthId" THEN PLAN_LIMITS_B(plan) ELSE PLAN_LIMITS_A(plan)

\* the counters of a user are those of a fresh period under the limits
IsReset(u, limits) ==
    /\ u.messagesUsed = 0
    /\ u.documentsUsed = 0
    /\ u.messageLeft = limits.messages
    /\ u.documentLeft = limits.documents

\* C1 as stated: after every answered PATCH with planType = P, whatever the user's
\* plan was, the used counters are 0 and the left counters are the limits of P.
C1_EveryPlanRequestResets ==
    PlanRequested =>
        IsReset(Row(users, last.uid), LimitsFor(last.op, last.body.planType[1]))

\* C1: after an answered PATCH with planType = P, where P is not the plan the user
\* was on, the used counters are 0 and the left counters are the limits of P in
\* the table of the handler's revision.
C1_PlanChangeResets ==
    PlanChanged =>
        IsReset(Row(users, last.uid), LimitsFor(last.op, last.body.planType[1]))

\* a plan change of a user who had used messages and whose left counter differed
\* from the new plan's limit
C1_Witness ==
    /\ PlanChanged
    /\ Row(pre, last.uid).messagesUsed > 0
    /\ Row(pre, last.uid).messageLeft # LimitsFor(last.op, last.body.planType[1]).messages
    /\ last.body.messageLeft # Null

\* C7 as stated: after a change to a different plan, a paid plan leaves the user
\* ACTIVE with the start date at the time of the call and the end date one month
\* (setMonth(getMonth() + 1)) later; BASIC leaves the user CANCELED with both dates null.
C7_PlanChangeSetsSubscription ==
    PlanChanged =>
        LET u == Row(users, last.uid)
        IN  IF last.body.planType[1] \in PaidPlans
            THEN /\ u.subscriptionStatus = "ACTIVE"
                 /\ u.subscriptioStartDate = Some(last.t)
                 /\ u.subscriptionEndDate = Some(AddMonth(last.t))
            ELSE /\ u.subscriptionStatus = "CANCELED"
                 /\ u.subscriptioStartDate = Null
                 /\ u.subscriptionEndDate = Null

\* the last request was a PATCH that carried nothing but the plan the user is on
\* a row without its write stamp: the identity, plan, status, dates and counters
Content(u) == [u EXCEPT !.updatedAt = 0]

Contents(store) == {Content(u) : u \in store}

SamePlanRequested ==
    /\ last.op \in {"updateUserById", "updateUserByOauthId"}
    /\ Has(pre, last.uid)
    /\ last.body = Body1("planType", Row(pre, last.uid).planType)

\* C8: a PATCH that carries only planType = P, P the user's current plan, leaves
\* the table as it was: plan, status, dates, used and left counters unchanged.
C8_SamePlanIsNoOp == SamePlanRequested => Contents(users) = Contents(pre)

\* the same plan asked again for a paying user who had used messages, by the
\* handler that goes on to write
C8_Witness ==
    /\ SamePlanRequested
    /\ last.op = "updateUserById"
    /\ last.status = 200
    /\ Row(pre, last.uid).planType \in PaidPlans
    /\ Row(pre, last.uid).messagesUsed > 0

\* C10 as stated: a user on BASIC has no end date, and a user on a paid plan who
\* is ACTIVE or PAST_DUE has one.
C10_EndDateMatchesPlan ==
    \A u \in users :
        /\ u.planType = "BASIC" => u.subscriptionEndDate = Null
        /\ (u.planType \in PaidPlans /\ u.subscriptionStatus \in {"ACTIVE", "PAST_DUE"})
               => u.subscriptionEndDate # Null

\* the end date of the user is earlier than t and the status is not CANCELED
IsExpired(u, t) ==
    /\ u.subscriptionEndDate # Null
    /\ u.subscriptionEndDate[1] < t
    /\ u.subscriptionStatus # "CANCELED"

\* the user is on BASIC, UNPAID, without dates, with the counters of a fresh period
IsDowngraded(u) ==
    /\ u.planType = "BASIC"
    /\ u.subscriptionStatus = "UNPAID"
    /\ u.subscriptioStartDate = Null
    /\ u.subscriptionEndDate = Null
    /\ IsReset(u, PLAN_LIMITS_B("BASIC"))

\* every user expired at the start of the last monthly pass is downgraded after it
MonthlyDowngrades ==
    last.op = "monthlyJob" =>
        \A u \in pre : IsExpired(u, last.t) =>
            Has(users, u.id) /\ IsDowngraded(Row(users, u.id))

\* the daily sweep leaves every expired user as it found them
DailyKeepsExpired ==
    last.op = "dailyJob" =>
        \A u \in pre : IsExpired(u, last.t) => u \in users

\* C4: a user whose end date is earlier than the start of a monthly pass and whose
\* status is not CANCELED is, after the pass, on BASIC, UNPAID, with both dates null,
\* the BASIC limits left and nothing used; the daily sweep leaves such a user as
\* they were, and so does a day that passes.
C4_MonthlyPassDowngrades ==
    /\ [](MonthlyDowngrades /\ DailyKeepsExpired)
    /\ [][now' # now => users' = users]_vars

\* a monthly pass that found a paying user expired, with messages used, past a
\* daily sweep on the same day or before, and a canceled user it passes over
C4_Witness ==
    /\ last.op = "monthlyJob"
    /\ \E u \in pre : /\ IsExpired(u, last.t)
                      /\ u.planType = "CORE"
                      /\ u.messagesUsed > 0
                      /\ u.subscriptionStatus = "PAST_DUE"
    /\ \E v \in pre : /\ v.subscriptionStatus = "CANCELED"
                      /\ v.subscriptionEndDate # Null
                      /\ v.subscriptionEndDate[1] < last.t
                      /\ v \in users

\* ACTIVE with the end date in [t, t + 3 days]
InWindow(u, t) ==
    /\ u.subscriptionStatus = "ACTIVE"
    /\ u.subscriptionEndDate # Null
    /\ u.subscriptionEndDate[1] >= t
    /\ u.subscriptionEndDate[1] <= t + ThreeDays

\* C5: after a daily sweep started at t, every user who was ACTIVE with the end date
\* in [t, t + 3 days] is PAST_DUE and every other user has the status they had.
C5_DailySweepMarksPastDue ==
    last.op = "dailyJob" =>
        \A u \in pre :
            /\ Has(users, u.id)
            /\ Row(users, u.id).subscriptionStatus =
                   IF InWindow(u, last.t) THEN "PAST_DUE" ELSE u.subscriptionStatus

\* a sweep that found one user on the last day of the window and another ACTIVE
\* user outside it
C5_Witness ==
    /\ last.op = "dailyJob"
    /\ \E u \in pre : /\ InWindow(u, last.t)
                      /\ u.subscriptionEndDate[1] = last.t + ThreeDays
                      /\ Row(users, u.id).subscriptionStatus = "PAST_DUE"
    /\ \E v \in pre : /\ v.subscriptionStatus = "ACTIVE"
                      /\ ~InWindow(v, last.t)
                      /\ v \in users

\* the counters of a kind of usage
LeftOf(u, kind) == IF kind = "message" THEN u.messageLeft ELSE u.documentLeft

UsedOf(u, kind) == IF kind = "message" THEN u.messagesUsed ELSE u.documentsUsed

\* the amount the last request asked for: 1 when it named none
RequestedAmount == IF last.body.amount = Null THEN 1 ELSE last.body.amount[1]

\* what the user had left of the kind the last request named
LeftBefore == LeftOf(Row(pre, last.uid), last.body.type[1])

\* the last request was a usage request for amount >= 1 of a kind of which the
\* stored user had a finite number L >= 0 left
UsageRequested ==
    /\ last.op = "consumeUsage"
    /\ Has(pre, last.uid)
    /\ last.body.type \in {Some("message"), Some("document")}
    /\ RequestedAmount >= 1
    /\ LeftBefore >= 0

\* C2: a usage request alone, for amount >= 1 of a kind of which the user has a
\* finite L >= 0 left: with amount <= L it is answered 200, the left counter is
\* L - amount and the used counter is up by amount; with amount > L it is answered
\* 403 and the table is as it was.  For messages and for documents.
C2_ConsumeWithinQuota ==
    UsageRequested =>
        IF RequestedAmount <= LeftBefore
        THEN /\ last.status = 200
             /\ Has(users, last.uid)
             /\ LeftOf(Row(users, last.uid), last.body.type[1]) = LeftBefore - RequestedAmount
             /\ UsedOf(Row(users, last.uid), last.body.type[1])
                    = UsedOf(Row(pre, last.uid), last.body.type[1]) + RequestedAmount
        ELSE /\ last.status = 403
             /\ users = pre

\* a request for exactly what was left, that went through
C2_Witness ==
    /\ UsageRequested
    /\ RequestedAmount = LeftBefore
    /\ RequestedAmount = 2
    /\ last.status = 200
    /\ Row(users, last.uid).messageLeft = 0
    /\ Row(users, last.uid).messagesUsed = 2

\* the row POST /users stores for the plan BASIC
IsNewBasic(u) ==
    /\ u.planType = "BASIC"
    /\ u.messageLeft = 20
    /\ u.documentLeft = 0
    /\ u.messagesUsed = 0
    /\ u.documentsUsed = 0

\* C9: POST /users with the plan BASIC stores messageLeft = 20 and documentLeft = 0,
\* and a usage request for 1 document on that row is answered 403 and leaves the
\* four counters as they were.
C9_BasicHasNoDocuments ==
    /\ (/\ last.op = "createUser"
        /\ last.status = 200
        /\ last.body.planType \in {Null, Some("BASIC")})
           => IsNewBasic(Row(users, last.uid))
    /\ (/\ last.op = "consumeUsage"
        /\ last.body = UsageBody("document", Some(1))
        /\ Has(pre, last.uid)
        /\ IsNewBasic(Row(pre, last.uid)))
           => /\ last.status = 403
              /\ Has(users, last.uid)
              /\ IsNewBasic(Row(users, last.uid))

\* one document asked for by a user just created on BASIC
C9_Witness ==
    /\ last.op = "consumeUsage"
    /\ last.body = UsageBody("document", Some(1))
    /\ last.status = 403
    /\ Has(pre, last.uid)
    /\ IsNewBasic(Row(pre, last.uid))
    /\ Row(pre, last.uid).subscriptionStatus = "UNPAID"
    /\ users = pre

\* C3: whatever the order in which usage requests of a user with a finite
\* messageLeft >= 0 read and write, the stored messageLeft is never below zero.
C3_MessageLeftNeverNegative == \A u \in users : u.messageLeft >= 0

\* a usage request that wrote from what it had read before another request's
\* write: when it wrote, less was left than it asked for
C3_Witness ==
    /\ last.op = "consumeUsage"
    /\ last.status = 200
    /\ Has(pre, last.uid)
    /\ Row(pre, last.uid).messageLeft < RequestedAmount
    /\ Row(pre, last.uid).messagesUsed > 0
    /\ Row(users, last.uid).messageLeft = 0

\* C6: in every state no two rows have the same oauthId and no two rows have the
\* same email.
C6_IdentitiesUnique ==
    \A u, v \in users :
        u.id # v.id => (u.oauthId # v.oauthId /\ u.email # v.email)

\* an API create that found no such user when it looked and was refused at the
\* write, the webhook having stored the identity in between, with two users stored
C6_Witness ==
    /\ last.op = "createUser"
    /\ last.status = 500
    /\ Cardinality(users) = 2
    /\ users = pre
    /\ \E u \in users : u.oauthId = last.body.oauthId[1]

\* the last step was a reset: a change of plan, a setSubscription or a monthly pass
LastWasReset ==
    \/ PlanChanged
    \/ last.op \in {"updateSubscription", "monthlyJob"}

\* C11 as stated: a step that is not a reset leaves each left counter of every user
\* less than or equal to what it was, the absolute usage update (PATCH with
\* messagesUsed / documentsUsed) included.
C11_LeftOnlyDecreases ==
    ~LastWasReset =>
        \A u \in pre :
            Has(users, u.id) =>
                /\ Row(users, u.id).messageLeft <= u.messageLeft
                /\ Row(users, u.id).documentLeft <= u.documentLeft

\* the last request was a delivery to the webhook
Delivered == last.op = "userWebhook"

\* ... with the three svix headers and a signature that verifies
Verified ==
    /\ Delivered
    /\ last.body.svix = Some(SvixHeaders)
    /\ last.body.signed = Some(TRUE)

\* C12: a delivery with svix-id, svix-timestamp or svix-signature missing, or with a
\* signature that does not verify, is answered with an error status and no row is
\* created, updated or deleted; the table changes only after verification.
C12_UnverifiedIsRejected ==
    (Delivered /\ ~Verified) =>
        /\ last.status \in {400, 500}
        /\ users = pre

\* a deletion event for a stored user, with all headers and a signature that does
\* not verify; and one with a signature that verifies and a header missing
C12_Witness ==
    /\ Delivered
    /\ last.body.type = Some("user.deleted")
    /\ \E u \in users : Some(u.oauthId) = last.body.oauthId
    /\ last.status = 400
    /\ \/ last.body.svix = Some(SvixHeaders) /\ last.body.signed = Some(FALSE)
       \/ last.body.svix = Some(SvixHeaders \ {"svix-signature"}) /\ last.body.signed = Some(TRUE)

\* what the handler of a route answers and leaves in the table when it is invoked
\* once on a table, with no other request in between
Outcome(op, store, id, where, body, t) ==
    LET plan == DataOf(op, store, where, body, t)
        w == WriteOf(op, store, id, where, plan.data, t)
    IN  IF plan.status # 0 THEN [status |-> plan.status, store |-> store]
        ELSE [status |-> IF w.err = "" THEN 200 ELSE CatchOf(op, w.err), store |-> w.store]

\* C13: for a request to a route behind clerkAuthenticate the handler is invoked
\* exactly once, whatever the token; the answer and the table after the request
\* are those of the handler, and they are the same for a valid token, an invalid
\* token and no token.
C13_FailOpen ==
    last.op \in GatedOps =>
        /\ Invocations(last.op, last.body) = 1
        /\ \A token \in Tokens :
               Outcome(last.op, pre, last.uid, ById(last.uid), WithToken(last.body, token), last.t)
                   = [status |-> last.status, store |-> users]

\* a deletion with a token that does not verify, that went through
C13_Witness ==
    /\ last.op = "deleteUser"
    /\ last.body.authorization = Some("invalid")
    /\ last.status = 200
    /\ Has(pre, last.uid)
    /\ ~Has(users, last.uid)

\* C14 as stated: when a run of a cron job is over, every user its loop had read
\* has been updated by it, but for the users whose own update failed.
C14_EachUserIndependent ==
    job.step \in {"done", "failed"} =>
        \A u \in job.selected : u.id \in job.done \cup job.failed

\* the last request was a delivery that passed verification, with the secret set
Accepted == Verified /\ last.body.secret = Some(TRUE)

\* C15 as stated: a verified user.created event for an oauthId that already has a
\* row is acknowledged with 200, not answered with an error.
C15_RedeliveryIsAcknowledged ==
    (/\ Accepted
     /\ last.body.type = Some("user.created")
     /\ \E u \in pre : Some(u.oauthId) = last.body.oauthId)
        => last.status = 200

\* C16: the daily sweep writes subscriptionStatus and nothing else: for every user
\* planType, the left and used counters and both subscription dates (and every
\* other column) are after the sweep what they were before it.
C16_DailySweepWritesStatusOnly ==
    last.op = "dailyJob" =>
        \A u \in pre :
            /\ Has(users, u.id)
            /\ Content([Row(users, u.id) EXCEPT !.subscriptionStatus = u.subscriptionStatus])
                   = Content(u)

\* a sweep that marked a paying user who had used messages
C16_Witness ==
    /\ last.op = "dailyJob"
    /\ \E u \in pre : /\ u.planType = "CORE"
                      /\ u.messagesUsed > 0
                      /\ u.messageLeft > 0
                      /\ u.subscriptionStatus = "ACTIVE"
                      /\ Row(users, u.id).subscriptionStatus = "PAST_DUE"

\* the months a setSubscription request asks for: 1 when it names none
RequestedMonths ==
    IF last.body.durationMonths = Null THEN 1 ELSE last.body.durationMonths[1]

\* C17: PATCH /users/:id/subscription for a stored user, with a valid plan and a
\* valid status, is answered 200 and leaves the user with that plan and status,
\* the start date at the time of the call, the end date durationMonths x 30 days
\* later (1 month when none is given), the left counters at the limits of the plan
\* and both used counters at 0.
C17_SetSubscriptionSetsAll ==
    (/\ last.op = "updateSubscription"
     /\ Has(pre, last.uid)
     /\ last.body.planType # Null /\ last.body.planType[1] \in PlanType
     /\ last.body.subscriptionStatus # Null
     /\ last.body.subscriptionStatus[1] \in SubscriptionStatus)
        => /\ last.status = 200
           /\ Has(users, last.uid)
           /\ LET u == Row(users, last.uid)
              IN  /\ u.planType = last.body.planType[1]
                  /\ u.subscriptionStatus = last.body.subscriptionStatus[1]
                  /\ u.subscriptioStartDate = Some(last.t)
                  /\ u.subscriptionEndDate = Some(last.t + RequestedMonths * ThirtyDays)
                  /\ IsReset(u, PLAN_LIMITS_A(u.planType))

\* a subscription of two months set on a later day for a user who had used messages
C17_Witness ==
    /\ last.op = "updateSubscription"
    /\ last.status = 200
    /\ Has(pre, last.uid)
    /\ Row(pre, last.uid).messagesUsed > 0
    /\ RequestedMonths = 2
    /\ last.t > 0
    /\ Row(users, last.uid).subscriptionEndDate = Some(last.t + 2 * ThirtyDays)

\* the row with the counters of a fresh period under the limits of its plan, and
\* every other column as it is
ResetRow(u) ==
    [u EXCEPT !.messageLeft = PLAN_LIMITS_B(u.planType).messages,
              !.documentLeft = PLAN_LIMITS_B(u.planType).documents,
              !.messagesUsed = 0,
              !.documentsUsed = 0]

\* C18: after a monthly pass every user who was ACTIVE when its second step read
\* the users (ACTIVE before the pass and not expired) has the left counters at
\* the limits of their plan and the used counters at 0, with planType,
\* subscriptionStatus and both subscription dates as they were.
C18_MonthlyResetsActive ==
    last.op = "monthlyJob" =>
        \A u \in pre :
            (u.subscriptionStatus = "ACTIVE" /\ ~IsExpired(u, last.t)) =>
                /\ Has(users, u.id)
                /\ Content(Row(users, u.id)) = Content(ResetRow(u))

\* a pass that found an active user on a paid plan with messages used and an end
\* date ahead
C18_Witness ==
    /\ last.op = "monthlyJob"
    /\ \E u \in pre : /\ u.subscriptionStatus = "ACTIVE"
                      /\ u.planType = "CORE"
                      /\ u.messagesUsed > 0
                      /\ u.subscriptionEndDate # Null
                      /\ u.subscriptionEndDate[1] > last.t
                      /\ Row(users, u.id).messageLeft = 100
                      /\ Row(users, u.id).messagesUsed = 0

\* the body of the last request lacks email or oauthId, or carries an email or a
\* planType that is not valid
MalformedCreate ==
    \/ last.body.email = Null
    \/ last.body.oauthId = Null
    \/ ~isValidEmail(last.body.email[1])
    \/ (last.body.planType # Null /\ ~isValidPlanType(last.body.planType[1]))

\* C19 as stated: POST /users is answered 400 and stores nothing when the body is
\* malformed, and is answered 409 and stores nothing when its email or its oauthId
\* belongs to a stored user, also when another create request runs beside it.
C19_CreateConflictIs409 ==
    last.op = "createUser" =>
        IF MalformedCreate
        THEN last.status = 400 /\ users = pre
        ELSE (\E u \in pre : \/ u.email = last.body.email[1]
                             \/ u.oauthId = last.body.oauthId[1])
                 => (last.status = 409 /\ users = pre)

\* C20: a verified event of a user.* kind other than user.created, user.updated
\* and user.deleted leaves every row as it was and is answered 200.
C20_OtherUserEventIsNoOp ==
    (Accepted /\ last.body.type = Some("user.other")) =>
        /\ last.status = 200
        /\ users = pre

\* such an event for a user who is stored, with a primary email address another
\* user holds
C20_Witness ==
    /\ Accepted
    /\ last.body.type = Some("user.other")
    /\ last.status = 200
    /\ \E u, v \in users : /\ u # v
                            /\ Some(u.oauthId) = last.body.oauthId
                            /\ Some(v.email) = last.body.email

\* a delivery that passed the secret, the headers and the signature, of an event
\* of another family than user.*
OtherFamily ==
    /\ Accepted
    /\ last.body.type \notin {Some(type) : type \in UserEventTypes}

\* C21: a verified event whose type does not start with 'user.' is not rejected
\* and changes no row: handleUserWebhook sends no response of its own and calls
\* next().
C21_OtherEventsArePassedOn ==
    OtherFamily =>
        /\ last.status = 0
        /\ last.next
        /\ users = pre

\* a session event delivered while a user is stored
C21_Witness ==
    /\ OtherFamily
    /\ last.body.type = Some("session.created")
    /\ last.next
    /\ users # {}

\* a verified user.created event in which no address has the primary id
CreatedWithoutPrimaryEmail ==
    /\ Accepted
    /\ last.body.type = Some("user.created")
    /\ last.body.email = Null

\* C22: a verified user.created event with no entry of email_addresses under
\* primary_email_address_id creates no row and is acknowledged with 200.
C22_NoPrimaryEmailIsAcknowledged ==
    CreatedWithoutPrimaryEmail =>
        /\ last.status = 200
        /\ users = pre

\* such an event for an oauthId that has no row, with a place left in the table
C22_Witness ==
    /\ CreatedWithoutPrimaryEmail
    /\ last.status = 200
    /\ nextId <= MaxUsers
    /\ \A u \in users : Some(u.oauthId) # last.body.oauthId

\* the last request was the verified delivery of a user.created, user.updated or
\* user.deleted event that had been delivered just before
Redelivered ==
    /\ Accepted
    /\ last.again
    /\ last.body.type \in {Some("user.created"), Some("user.updated"), Some("user.deleted")}

\* C23 as stated: the second delivery of the same verified event leaves the rows
\* and all their fields as they were after the first.
C23_RedeliveryChangesNothing == Redelivered => users = pre

\* C23: the second delivery of the same verified event leaves the same rows, with
\* every field other than updatedAt as it was after the first.
C23_RedeliveryKeepsContents == Redelivered => Contents(users) = Contents(pre)

\* a user.updated event delivered again on a later day: the row is written again
C23_Witness ==
    /\ Redelivered
    /\ last.body.type = Some("user.updated")
    /\ last.status = 200
    /\ \E u \in pre : /\ u.id = last.uid
                      /\ u.updatedAt < last.t
                      /\ Row(users, u.id).updatedAt = last.t

\* the last request matched no route and its path is outside /api/v1,
\* /api/userWebhook and /health
OutsidePrefixes ==
    /\ last.op = "unrouted"
    /\ ~startsWith(last.path, BASE_PATH)
    /\ ~startsWith(last.path, WebhookPrefix)
    /\ last.path # HealthPath

\* C24: a request that matched no route, with a path that does not start with
\* /api/v1 or /api/userWebhook and is not /health, is answered 400 'Invalid API
\* version'; no row changes.
C24_OutsidePrefixesIs400 ==
    OutsidePrefixes =>
        /\ last.status = 400
        /\ users = pre

\* a request for another version of the API, and one for a path that goes on
\* after /health
C24_Witness ==
    /\ OutsidePrefixes
    /\ last.path \in {<<"/api", "/v2", "/users">>, <<"/health", "z">>}
    /\ last.status = 400
    /\ users # {}

\* C25 as stated: whichever handler a persistence error occurs in, the answer has
\* the status of the error's code: 409 for P2002, 404 for P2025, 400 for P2003,
\* 503 for P1001 and P1009, 500 for any other.
C25_ErrorsFollowTaxonomy ==
    last.err # "" => last.status = prismaErrorHandler(last.err)

\* C26 as stated: with no write to the row other than those of the usage requests
\* for one message, every request that is answered 200 takes one from messageLeft
\* and adds one to messagesUsed, whatever runs beside it: after n such answers
\* messageLeft is L - n and messagesUsed is up by n.
C26_NoLostUpdate ==
    (/\ UsageRequested
     /\ last.body.type = Some("message")
     /\ RequestedAmount = 1
     /\ last.status = 200)
        => /\ Row(users, last.uid).messageLeft = LeftBefore - 1
           /\ Row(users, last.uid).messagesUsed = Row(pre, last.uid).messagesUsed + 1

\* the kind of usage the last PATCH /users/:oauthId asked to count by one
IncrementedKind ==
    IF last.body.incrementMessage = Some(TRUE) THEN "message" ELSE "document"

\* the last request was a PATCH /users/:oauthId with incrementMessage or
\* incrementDocument = true and no planType, for a stored user who had nothing
\* left of that kind
IncrementWithNothingLeft ==
    /\ last.op = "updateUserByOauthId"
    /\ last.body.planType = Null
    /\ \/ last.body.incrementMessage = Some(TRUE)
       \/ last.body.incrementDocument = Some(TRUE)
    /\ Has(pre, last.uid)
    /\ LeftOf(Row(pre, last.uid), IncrementedKind) = 0

\* C27 as stated: on every path that counts usage, a request for more than the
\* finite number left is refused with 403 and the used counter stays as it was:
\* on the usage endpoint, and on PATCH /users/:oauthId with incrementMessage or
\* incrementDocument = true when nothing is left.
C27_EveryPathEnforcesQuota ==
    /\ (UsageRequested /\ RequestedAmount > LeftBefore)
           => /\ last.status = 403
              /\ Contents(users) = Contents(pre)
    /\ IncrementWithNothingLeft
           => /\ last.status = 403
              /\ UsedOf(Row(users, last.uid), IncrementedKind)
                     = UsedOf(Row(pre, last.uid), IncrementedKind)

\* the kind of usage the last PATCH /users/:oauthId reported, by increment or by
\* absolute value
ReportedKinds ==
    {k \in {"message", "document"} :
        IF k = "message"
        THEN last.body.incrementMessage = Some(TRUE) \/ last.body.messagesUsed # Null
        ELSE last.body.incrementDocument = Some(TRUE) \/ last.body.documentsUsed # Null}

\* the used counter the last PATCH /users/:oauthId asked for
ReportedUsed(k) ==
    IF k = "message"
    THEN IF last.body.incrementMessage = Some(TRUE)
         THEN Row(pre, last.uid).messagesUsed + 1
         ELSE Max(0, last.body.messagesUsed[1])
    ELSE IF last.body.incrementDocument = Some(TRUE)
         THEN Row(pre, last.uid).documentsUsed + 1
         ELSE Max(0, last.body.documentsUsed[1])

\* C28: when the left counter of a kind holds -1, a usage request for amount >= 1
\* of that kind is answered 200, adds amount to the used counter and leaves the
\* left counter at -1; PATCH /users/:oauthId with an increment or an absolute used
\* counter of that kind sets the used counter and leaves the left counter at -1.
C28_UnlimitedStaysUnlimited ==
    /\ (/\ last.op = "consumeUsage"
        /\ Has(pre, last.uid)
        /\ last.body.type \in {Some("message"), Some("document")}
        /\ RequestedAmount >= 1
        /\ LeftBefore = Unlimited)
           => /\ last.status = 200
              /\ LeftOf(Row(users, last.uid), last.body.type[1]) = Unlimited
              /\ UsedOf(Row(users, last.uid), last.body.type[1])
                     = UsedOf(Row(pre, last.uid), last.body.type[1]) + RequestedAmount
    /\ (/\ last.op = "updateUserByOauthId"
        /\ last.body.planType = Null
        /\ Has(pre, last.uid))
           => \A k \in ReportedKinds :
                  LeftOf(Row(pre, last.uid), k) = Unlimited
                      => /\ last.status = 200
                         /\ LeftOf(Row(users, last.uid), k) = Unlimited
                         /\ UsedOf(Row(users, last.uid), k) = ReportedUsed(k)

\* two messages counted at once for a user with unlimited messages who had used
\* none
C28_Witness ==
    /\ last.op = "consumeUsage"
    /\ last.body = UsageBody("message", Some(2))
    /\ last.status = 200
    /\ Has(pre, last.uid)
    /\ Row(pre, last.uid).messageLeft = Unlimited
    /\ Row(pre, last.uid).messagesUsed = 0
    /\ Row(users, last.uid).messagesUsed = 2
    /\ Row(users, last.uid).messageLeft = Unlimited

\* C29 as stated: a usage request that runs beside a plan change or a new
\* subscription of the same user does not overwrite the reset: once no request
\* is waiting, the messages left and used of every user add up to the limit of
\* the plan the user is on.
C29_UsageKeepsReset ==
    pending = EmptyBag =>
        \A u \in users :
            u.messageLeft + u.messagesUsed = PLAN_LIMITS_A(u.planType).messages

\* the users whose update by the running job is the step being taken
JustWritten == job'.done \ job.done

\* C30 as stated: the first loop of the monthly job leaves a user as they are when
\* their subscription is valid at the moment of the write, whatever the job read
\* before; and its second loop writes the limits of the plan the user is on at
\* the moment of the write.
C30_JobWritesWhatIsCurrent ==
    [][\A id \in JustWritten :
           /\ (job.step = "expire" /\ ~IsExpired(Row(users, id), now))
                  => Content(Row(users', id)) = Content(Row(users, id))
           /\ job.step = "reset"
                  => /\ Row(users', id).planType = Row(users, id).planType
                     /\ Row(users', id).messageLeft
                            = PLAN_LIMITS_B(Row(users, id).planType).messages]_vars

\* ACTIVE on a paid plan with an end date earlier than t
ActivePaidExpired(u, t) ==
    /\ u.subscriptionStatus = "ACTIVE"
    /\ u.planType \in PaidPlans
    /\ u.subscriptionEndDate # Null
    /\ u.subscriptionEndDate[1] < t

\* C31: in one monthly pass the expiry comes before the reset: a user who was
\* ACTIVE on a paid plan with an end date earlier than the start of the pass ends
\* the pass UNPAID on BASIC with the BASIC limits left, not those of the plan they
\* were on; and after the pass no user is ACTIVE with an end date earlier than
\* its start.
C31_ExpiryBeforeReset ==
    last.op = "monthlyJob" =>
        /\ \A u \in pre : ActivePaidExpired(u, last.t) =>
               /\ Has(users, u.id)
               /\ Row(users, u.id).planType = "BASIC"
               /\ Row(users, u.id).subscriptionStatus = "UNPAID"
               /\ Row(users, u.id).messageLeft = PLAN_LIMITS_B("BASIC").messages
               /\ Row(users, u.id).documentLeft = PLAN_LIMITS_B("BASIC").documents
        /\ \A u \in users : ~(/\ u.subscriptionStatus = "ACTIVE"
                               /\ u.subscriptionEndDate # Null
                               /\ u.subscriptionEndDate[1] < last.t)

\* a pass that found an ACTIVE user on CORE expired, with another user ACTIVE for
\* the reset
C31_Witness ==
    /\ last.op = "monthlyJob"
    /\ \E u \in pre : /\ ActivePaidExpired(u, last.t)
                      /\ u.planType = "CORE"
                      /\ Row(users, u.id).messageLeft = 20
    /\ \E v \in users : v.subscriptionStatus = "ACTIVE"

\* the monthly pass started at t selects the user in neither of its loops
PassedOver(u, t) ==
    /\ ~IsExpired(u, t)
    /\ u.subscriptionStatus # "ACTIVE"

\* C32: the monthly pass changes no field of a user who is neither expired and
\* not CANCELED nor ACTIVE: a BASIC user with status UNPAID, a CANCELED user, a
\* PAST_DUE user whose end date is ahead keep their row, counters included.
C32_MonthlyPassesOverTheRest ==
    last.op = "monthlyJob" =>
        \A u \in pre : PassedOver(u, last.t) => u \in users

\* a pass over a PAST_DUE user with messages used and the end date ahead, and a
\* CANCELED user whose end date is past, while it downgrades nobody else
C32_Witness ==
    /\ last.op = "monthlyJob"
    /\ \E u \in pre : /\ u.subscriptionStatus = "PAST_DUE"
                      /\ u.subscriptionEndDate # Null
                      /\ u.subscriptionEndDate[1] >= last.t
                      /\ u.messagesUsed > 0
                      /\ u.updatedAt < last.t
                      /\ u \in users
    /\ \E v \in pre : /\ v.subscriptionStatus = "CANCELED"
                      /\ v.subscriptionEndDate # Null
                      /\ v.subscriptionEndDate[1] < last.t
                      /\ v \in users

\* C33 as stated: in every state reached by creation, plan changes, subscriptions,
\* usage by the endpoint, by increment and by absolute value, and the monthly
\* job, no user has more messages or documents left than the limit of their plan.
C33_LeftWithinLimit ==
    \A u \in users :
        /\ u.messageLeft <= PLAN_LIMITS_B(u.planType).messages
        /\ u.documentLeft <= PLAN_LIMITS_B(u.planType).documents

\* C34 as stated: in every state reached by requests that run one after another,
\* the used counters are not negative and each left counter is the sentinel -1
\* or not negative.
C34_CountersInRange ==
    \A u \in users :
        /\ u.messagesUsed >= 0
        /\ u.documentsUsed >= 0
        /\ u.messageLeft >= 0 - 1
        /\ u.documentLeft >= 0 - 1

\* a user whose subscription has an end date that has passed and who has not
\* canceled, while a first of the month is still to come on the clock
ExpiredNotCanceled(id) ==
    \E u \in users : /\ u.id = id
                     /\ u.subscriptionEndDate # Null
                     /\ u.subscriptionEndDate[1] < now
                     /\ u.subscriptionStatus # "CANCELED"
                     /\ \E d \in now..MaxTime : IsFirstOfMonth(d)

DowngradedToBasic(id) ==
    \E u \in users : /\ u.id = id
                     /\ u.planType = "BASIC"
                     /\ u.subscriptionStatus = "UNPAID"
                     /\ u.subscriptionEndDate = Null
                     /\ u.subscriptioStartDate = Null

\* a step of one of the two jobs
JobMoves == job' # job \/ (last'.op = "dailyJob" /\ last' # last)

\* what a step leaves of a user: active only if active before; past due before,
\* past due still or downgraded
KeptByJobs(u, v) ==
    /\ v.subscriptionStatus = "ACTIVE" => u.subscriptionStatus = "ACTIVE"
    /\ u.subscriptionStatus = "PAST_DUE" =>
           \/ v.subscriptionStatus = "PAST_DUE" /\ v.planType = u.planType
           \/ v.planType = "BASIC" /\ v.subscriptionStatus = "UNPAID"

\* C35: with the jobs fired at every midnight and no request after day 0, a
\* user whose end date has passed and who has not canceled is in the end on
\* BASIC, UNPAID, with no dates; and no step of a job makes a user ACTIVE, a
\* PAST_DUE user staying PAST_DUE until the downgrade.
C35_ExpiredIsDowngraded ==
    /\ \A id \in Ids : ExpiredNotCanceled(id) ~> DowngradedToBasic(id)
    /\ [][JobMoves => \A u \in users : \A v \in users' : v.id = u.id => KeptByJobs(u, v)]_vars

\* the monthly run has read a user flagged PAST_DUE by the sweep, the end date
\* past, and has downgraded them
C35_Witness ==
    /\ job.op = "monthlyJob"
    /\ job.step = "expire"
    /\ job.todo = {}
    /\ \E u \in job.selected : /\ u.subscriptionStatus = "PAST_DUE"
                                /\ u.planType = "CORE"
                                /\ DowngradedToBasic(u.id)

\* C36 as stated: every request that has gone through the router has been sent a
\* response, by its handler or by a layer the handler passed it on to; requests
\* under /api/v1 that match no route and webhook requests passed on with next()
\* included.
C36_EveryRequestIsAnswered ==
    last.op \in {"unrouted", "userWebhook"} => (last.status # 0 \/ last.after # 0)

\* the requests of the routes under /api/v1
ApiOps ==
    {"createUser", "updateUserById", "updateSubscription", "consumeUsage",
     "updateUserByOauthId", "deleteUser"}

\* C37: a request to a route under /api/v1 that is answered 400, 403, 404 or 409
\* has written nothing: the table is the table before the request.
C37_RejectionWritesNothing ==
    (last.op \in ApiOps /\ last.status \in {400, 403, 404, 409}) => users = pre

\* PATCH /users/x1 with the email of the other user is answered 409 and both rows
\* are as they were
C37_Witness ==
    /\ last.op = "updateUserByOauthId"
    /\ last.status = 409
    /\ last.err = "P2002"
    /\ Cardinality(pre) = 2

\* the four counters of a row
CountersOf(u) == <<u.messagesUsed, u.documentsUsed, u.messageLeft, u.documentLeft>>

\* the counters a plan starts with
CountersAtReset(plan) ==
    <<0, 0, PLAN_LIMITS_B(plan).messages, PLAN_LIMITS_B(plan).documents>>

Patched == last.op = "updateUserByOauthId" /\ last.status = 200

\* C38 as stated: in PATCH /users/:oauthId, with planType in the body the usage
\* fields of the body do nothing to the counters, which are those of the reset when
\* the plan changes and those before the request when it does not; with no
\* planType, incrementMessage = true goes before messagesUsed, and
\* incrementDocument = true before documentsUsed.
C38_PlanTypeShutsUsageOut ==
    Patched =>
        LET before == Row(pre, last.uid)
            after == Row(users, last.uid)
        IN  /\ last.body.planType # Null =>
                   CountersOf(after) = IF after.planType # before.planType
                                       THEN CountersAtReset(after.planType)
                                       ELSE CountersOf(before)
            /\ (last.body.planType = Null /\ last.body.incrementMessage = Some(TRUE)) =>
                   after.messagesUsed = before.messagesUsed + 1
            /\ (last.body.planType = Null /\ last.body.incrementDocument = Some(TRUE)) =>
                   after.documentsUsed = before.documentsUsed + 1

====
